---- MODULE Spec2Model ----
(***************************************************************************)
(* Model of the Scaleway CSI controller service and of the in-memory Fake  *)
(* cloud client it is run against.                                         *)
(*                                                                         *)
(* A string that may hold '/' (a zonal ID) is a sequence of its segments:  *)
(* "fr-par-1/vol-1" is <<"fr-par-1", "vol-1">>, "vol-1" is <<"vol-1">>,    *)
(* the empty string is <<"">>.  Plain IDs, names and zones are strings.    *)
(***************************************************************************)
EXTENDS Integers, Sequences, FiniteSets, TLC

\* ------------------------------------------------------------------------
\* Program constants
\* ------------------------------------------------------------------------
MaxVolumesPerNode == 16
MinVolumeSize == 1000000000
LegacyDefaultVolumeTypeIOPS == 5000
LegacyDefaultVolumeType == "b_ssd"
InstanceServerProductResourceType == "instance_server"

\* ------------------------------------------------------------------------
\* Bounds of the model
\* ------------------------------------------------------------------------
\* number of volume IDs the Fake may hand out (uuid.NewString is fresh)
MaxVolumes == 2
\* number of snapshot IDs the Fake may hand out
MaxSnapshots == 2
\* number of RPCs that may be in flight at the same time
MaxTasks == 2
MaxListed == 5

Tasks == 1..MaxTasks

\* ------------------------------------------------------------------------
\* Values
\* ------------------------------------------------------------------------
NoZone == ""
ZoneFrPar1 == "fr-par-1"
ZoneFrPar2 == "fr-par-2"
Zones == {ZoneFrPar1, ZoneFrPar2}

\* a nil pointer to a struct; a pointer to a string or a number is the
\* sequence of the value it points to, <<>> when it is nil
Nil == [nil |-> TRUE]

\* the i-th value of uuid.NewString() for a kind of resource
NewUUID(prefix, n) == prefix \o ToString(n)

VolumeUUIDs == {NewUUID("vol-", n) : n \in 1..MaxVolumes}
SnapshotUUIDs == {NewUUID("snap-", n) : n \in 1..MaxSnapshots}

\* errors of the cloud client
NoError == "nil"
ResourceNotFoundError == "scw.ResourceNotFoundError"
PreconditionFailedError == "scw.PreconditionFailedError"
ErrVolumeNotFound == "ErrVolumeNotFound"
ErrSnapshotNotFound == "ErrSnapshotNotFound"
ErrSnapshotExists == "ErrSnapshotExists"
ErrVolumeDifferentSize == "ErrVolumeDifferentSize"
OtherError == "errors.New"

\* gRPC codes
OK == "OK"
InvalidArgument == "InvalidArgument"
OutOfRange == "OutOfRange"
AlreadyExists == "AlreadyExists"
NotFound == "NotFound"
FailedPrecondition == "FailedPrecondition"
ResourceExhausted == "ResourceExhausted"
Internal == "Internal"
Aborted == "Aborted"
Unknown == "Unknown"

\* block.VolumeStatus / block.SnapshotStatus
VolumeStatusAvailable == "available"
VolumeStatusInUse == "in_use"
SnapshotStatusAvailable == "available"
SnapshotStatusInUse == "in_use"
SnapshotStatusCreating == "creating"
SnapshotStatusError == "error"
SnapshotStatusDeleted == "deleted"
SnapshotStatusLocked == "locked"

\* csi access modes
SupportedAccessModes ==
    {"SINGLE_NODE_WRITER", "SINGLE_NODE_READER_ONLY",
     "SINGLE_NODE_SINGLE_WRITER", "SINGLE_NODE_MULTI_WRITER"}

\* ------------------------------------------------------------------------
\* Sequence helpers
\* ------------------------------------------------------------------------
Range(s) == {s[i] : i \in DOMAIN s}

RECURSIVE SetToSeqs(_)
\* every ordering of a finite set (the orders a Go map range may produce)
SetToSeqs(S) ==
    IF S = {} THEN {<<>>}
    ELSE UNION {{<<x>> \o rest : rest \in SetToSeqs(S \ {x})} : x \in S}

\* m with key k removed
MapDelete(m, k) == [x \in DOMAIN m \ {k} |-> m[x]]

\* m with key k set to v
MapPut(m, k, v) == [x \in DOMAIN m \cup {k} |-> IF x = k THEN v ELSE m[x]]

\* ------------------------------------------------------------------------
\* Shared helpers of the driver
\* ------------------------------------------------------------------------
\* scw.ParseZone: the zones the SDK accepts
ParseZoneOK(s) == s \in Zones

\* expandZonalID: fmt.Sprintf("%s/%s", zone, id)
expandZonalID(id, zone) == <<zone, id>>

\* ExtractIDAndZone: [err, id, zone] of a zonal ID
ExtractIDAndZone(id) ==
    IF id = <<"">> THEN [err |-> InvalidArgument, id |-> "", zone |-> NoZone]
    ELSE IF Len(id) > 2 THEN [err |-> InvalidArgument, id |-> "", zone |-> NoZone]
    ELSE IF Len(id) = 1 THEN [err |-> NoError, id |-> id[1], zone |-> NoZone]
    ELSE IF ~ParseZoneOK(id[1]) THEN [err |-> NoError, id |-> id[2], zone |-> NoZone]
    ELSE [err |-> NoError, id |-> id[2], zone |-> id[1]]

\* validateVolumeCapability: [err, block, mount] of one capability (the
\* getters of a nil capability give the unsupported mode UNKNOWN)
validateVolumeCapability(c) ==
    IF c = Nil THEN [err |-> OtherError, block |-> FALSE, mount |-> FALSE]
    ELSE IF c.mode \notin SupportedAccessModes
    THEN [err |-> OtherError, block |-> FALSE, mount |-> FALSE]
    ELSE IF c.block /\ c.mount
    THEN [err |-> OtherError, block |-> FALSE, mount |-> FALSE]
    ELSE IF ~c.block /\ ~c.mount
    THEN [err |-> OtherError, block |-> FALSE, mount |-> FALSE]
    ELSE [err |-> NoError, block |-> c.block, mount |-> c.mount]

\* validateVolumeCapabilities: the error of a list of capabilities
validateVolumeCapabilities(caps, optional) ==
    IF ~optional /\ Len(caps) = 0 THEN OtherError
    ELSE IF \E i \in DOMAIN caps : validateVolumeCapability(caps[i]).err # NoError
    THEN OtherError
    ELSE NoError

\* a faulty variant of getVolumeRequestCapacity: the limit is preferred to
\* the required size, and a range below the minimum is raised to it
getVolumeRequestCapacityOfLimit(r) ==
    IF r = Nil THEN [err |-> NoError, size |-> MinVolumeSize]
    ELSE IF r.required > 0 /\ r.limit > 0 /\ r.limit < r.required
    THEN [err |-> OtherError, size |-> 0]
    ELSE IF r.limit > 0
    THEN [err |-> NoError, size |-> IF r.limit < MinVolumeSize THEN MinVolumeSize ELSE r.limit]
    ELSE IF r.required > 0
    THEN [err |-> NoError, size |-> IF r.required < MinVolumeSize THEN MinVolumeSize
                                    ELSE r.required]
    ELSE [err |-> NoError, size |-> MinVolumeSize]

\* getVolumeRequestCapacity: [err, size] of a capacity range (Nil or
\* [required, limit])
getVolumeRequestCapacity(r) ==
    IF r = Nil THEN [err |-> NoError, size |-> MinVolumeSize]
    ELSE LET requiredBytes == r.required
             requiredBytesSet == requiredBytes > 0
             limitBytes == r.limit
             limitBytesSet == limitBytes > 0
         IN  IF ~requiredBytesSet /\ ~limitBytesSet
             THEN [err |-> NoError, size |-> MinVolumeSize]
             ELSE IF requiredBytesSet /\ limitBytesSet /\ limitBytes < requiredBytes
             THEN [err |-> OtherError, size |-> 0]
             ELSE IF requiredBytesSet /\ ~limitBytesSet /\ requiredBytes < MinVolumeSize
             THEN [err |-> OtherError, size |-> 0]
             ELSE IF limitBytesSet /\ limitBytes < MinVolumeSize
             THEN [err |-> OtherError, size |-> 0]
             ELSE IF requiredBytesSet /\ limitBytesSet /\ requiredBytes = limitBytes
             THEN [err |-> NoError, size |-> requiredBytes]
             ELSE IF requiredBytesSet
             THEN [err |-> NoError, size |-> requiredBytes]
             ELSE IF limitBytesSet
             THEN [err |-> NoError, size |-> limitBytes]
             ELSE [err |-> NoError, size |-> MinVolumeSize]

\* codeFromScalewayError: the gRPC code of a cloud client error
codeFromScalewayError(err) ==
    IF err \in {ErrVolumeDifferentSize, ErrSnapshotExists} THEN AlreadyExists
    ELSE IF err = ResourceNotFoundError THEN NotFound
    ELSE IF err = PreconditionFailedError THEN FailedPrecondition
    ELSE Internal

\* publishedNodeIDs: the zonal ID of the first instance_server reference
publishedNodeIDs(volume) ==
    LET idx == {i \in DOMAIN volume.References :
                  volume.References[i].ProductResourceType
                      = InstanceServerProductResourceType}
    IN  IF idx = {} THEN <<>>
        ELSE LET first == CHOOSE i \in idx : \A j \in idx : i <= j
             IN  <<expandZonalID(volume.References[first].ProductResourceID,
                                 volume.Zone)>>

\* csiVolume: the CSI volume of a Block volume
csiVolume(volume) ==
    [VolumeId |-> expandZonalID(volume.ID, volume.Zone),
     CapacityBytes |-> volume.Size,
     AccessibleTopology |-> <<volume.Zone>>,
     ContentSource |-> IF volume.ParentSnapshotID = <<>> THEN Nil
                       ELSE [SnapshotId |->
                                expandZonalID(volume.ParentSnapshotID[1], volume.Zone)]]

\* csiSnapshot: the CSI snapshot of a Block snapshot
csiSnapshot(snapshot) ==
    [SizeBytes |-> snapshot.Size,
     SnapshotId |-> expandZonalID(snapshot.ID, snapshot.Zone),
     ReadyToUse |-> snapshot.Status = SnapshotStatusAvailable,
     SourceVolumeId |-> IF snapshot.ParentVolume = Nil THEN <<"">>
                        ELSE expandZonalID(snapshot.ParentVolume.ID, snapshot.Zone)]

\* ZoneTopologyKey: the topology key of the zone
ZoneTopologyKey == "topology.csi.scaleway.com/zone"

\* chooseZones, the loop over GetRequisite(): the requestedZones map (its
\* keys) of a list of [key, value] segments
requestedZonesOf(requisite, snapshotZone) ==
    {requisite[i].value : i \in {j \in DOMAIN requisite :
        /\ requisite[j].key = ZoneTopologyKey
        /\ ParseZoneOK(requisite[j].value)
        /\ (snapshotZone = NoZone \/ snapshotZone = requisite[j].value)}}

RECURSIVE preferredLoop(_, _, _, _, _, _)
\* chooseZones, the loop over GetPreferred() from entry i on:
\* [err, preferredZones, requestedZones]
preferredLoop(preferred, i, hasRequisite, snapshotZone, requestedZones, preferredZones) ==
    IF i > Len(preferred)
    THEN [err |-> NoError, preferredZones |-> preferredZones,
          requestedZones |-> requestedZones]
    ELSE LET p == preferred[i]
             considered ==
                 /\ p.key = ZoneTopologyKey
                 /\ ParseZoneOK(p.value)
                 /\ (snapshotZone = NoZone \/ snapshotZone = p.value)
                 /\ p.value \notin Range(preferredZones)
         IN  IF ~considered
             THEN preferredLoop(preferred, i + 1, hasRequisite, snapshotZone,
                                requestedZones, preferredZones)
             ELSE IF hasRequisite /\ p.value \notin requestedZones
             THEN [err |-> InvalidArgument, preferredZones |-> <<>>,
                   requestedZones |-> {}]
             ELSE preferredLoop(preferred, i + 1, hasRequisite, snapshotZone,
                                IF hasRequisite THEN requestedZones \ {p.value}
                                ELSE requestedZones,
                                Append(preferredZones, p.value))

\* a faulty variant of chooseZones: the remaining requisite zones come
\* before the preferred ones
chooseZonesRequisiteFirst(accessibilityRequirements, snapshotZone) ==
    IF accessibilityRequirements # Nil
    THEN LET requisite == accessibilityRequirements.Requisite
             r == preferredLoop(accessibilityRequirements.Preferred, 1,
                                Len(requisite) > 0, snapshotZone,
                                requestedZonesOf(requisite, snapshotZone), <<>>)
         IN  IF r.err # NoError THEN {[err |-> r.err, zones |-> <<>>]}
             ELSE {IF snapshotZone # NoZone /\ Len(rest \o r.preferredZones) # 1
                   THEN [err |-> ResourceExhausted, zones |-> <<>>]
                   ELSE [err |-> NoError, zones |-> rest \o r.preferredZones] :
                   rest \in SetToSeqs(r.requestedZones)}
    ELSE IF snapshotZone # NoZone
    THEN {[err |-> NoError, zones |-> <<snapshotZone>>]}
    ELSE {[err |-> NoError, zones |-> <<>>]}

\* a faulty variant of chooseZones: the preferred zones are not looked up
\* in the requisite ones
chooseZonesAnyPreferred(accessibilityRequirements, snapshotZone) ==
    IF accessibilityRequirements # Nil
    THEN LET requisite == accessibilityRequirements.Requisite
             r == preferredLoop(accessibilityRequirements.Preferred, 1,
                                FALSE, snapshotZone,
                                requestedZonesOf(requisite, snapshotZone), <<>>)
         IN  {IF snapshotZone # NoZone /\ Len(r.preferredZones \o rest) # 1
              THEN [err |-> ResourceExhausted, zones |-> <<>>]
              ELSE [err |-> NoError, zones |-> r.preferredZones \o rest] :
              rest \in SetToSeqs(r.requestedZones \ Range(r.preferredZones))}
    ELSE IF snapshotZone # NoZone
    THEN {[err |-> NoError, zones |-> <<snapshotZone>>]}
    ELSE {[err |-> NoError, zones |-> <<>>]}

\* chooseZones: the set of [err, zones] it may return (the remaining
\* requisite zones are appended in the order of a Go map range)
chooseZones(accessibilityRequirements, snapshotZone) ==
    IF accessibilityRequirements # Nil
    THEN LET requisite == accessibilityRequirements.Requisite
             requestedZones == requestedZonesOf(requisite, snapshotZone)
             r == preferredLoop(accessibilityRequirements.Preferred, 1,
                                Len(requisite) > 0, snapshotZone,
                                requestedZones, <<>>)
         IN  IF r.err # NoError THEN {[err |-> r.err, zones |-> <<>>]}
             ELSE {IF snapshotZone # NoZone /\ Len(r.preferredZones \o rest) # 1
                   THEN [err |-> ResourceExhausted, zones |-> <<>>]
                   ELSE [err |-> NoError, zones |-> r.preferredZones \o rest] :
                   rest \in SetToSeqs(r.requestedZones)}
    ELSE IF snapshotZone # NoZone
    THEN {[err |-> NoError, zones |-> <<snapshotZone>>]}
    ELSE {[err |-> NoError, zones |-> <<>>]}

\* strconv.ParseBool on the values the model uses: [err, value]
ParseBool(s) ==
    IF s \in {"1", "t", "T", "TRUE", "true", "True"} THEN [err |-> NoError, value |-> TRUE]
    ELSE IF s \in {"0", "f", "F", "FALSE", "false", "False"} THEN [err |-> NoError, value |-> FALSE]
    ELSE [err |-> OtherError, value |-> FALSE]

\* strconv.ParseUint on the values the model uses: [err, value]
ParseUint(s) ==
    IF s = "5000" THEN [err |-> NoError, value |-> 5000]
    ELSE IF s = "10000" THEN [err |-> NoError, value |-> 10000]
    ELSE IF s = "15000" THEN [err |-> NoError, value |-> 15000]
    ELSE IF \E n \in 0..(2 * MaxListed) : s = ToString(n)
    THEN [err |-> NoError, value |-> CHOOSE n \in 0..(2 * MaxListed) : s = ToString(n)]
    ELSE [err |-> OtherError, value |-> 0]

\* strings.ToLower on the parameter keys the model uses
ToLower(k) ==
    IF k = "Type" THEN "type"
    ELSE IF k = "Encrypted" THEN "encrypted"
    ELSE IF k = "IOPS" THEN "iops"
    ELSE k

\* parseCreateVolumeParams: [err, perfIOPS, encrypted] of the parameters, a
\* map from keys to values
parseCreateVolumeParams(params) ==
    LET keys == DOMAIN params
        bad(k) ==
            \/ ToLower(k) \notin {"type", "encrypted", "iops"}
            \/ ToLower(k) = "type" /\ params[k] # LegacyDefaultVolumeType
            \/ ToLower(k) = "encrypted" /\ ParseBool(params[k]).err # NoError
            \/ ToLower(k) = "iops" /\ ParseUint(params[k]).err # NoError
        typeKeys == {k \in keys : ToLower(k) = "type"}
        encKeys == {k \in keys : ToLower(k) = "encrypted"}
        iopsKeys == {k \in keys : ToLower(k) = "iops"}
    IN  IF \E k \in keys : bad(k)
        THEN {[err |-> OtherError, perfIOPS |-> <<>>, encrypted |-> FALSE]}
        ELSE {IF typeKeys # {} /\ iops # <<>> /\ iops # <<LegacyDefaultVolumeTypeIOPS>>
              THEN [err |-> OtherError, perfIOPS |-> <<>>, encrypted |-> FALSE]
              ELSE [err |-> NoError, perfIOPS |-> iops, encrypted |-> enc] :
              iops \in (IF iopsKeys = {} THEN {<<>>}
                        ELSE {<<ParseUint(params[k]).value>> : k \in iopsKeys}),
              enc \in (IF encKeys = {} THEN {FALSE}
                       ELSE {ParseBool(params[k]).value : k \in encKeys})}

\* ------------------------------------------------------------------------
\* The Fake cloud client.  Its state is the three maps volumes, snapshots
\* and servers; every method runs under the mutex f.mux, so each is one
\* atomic step.  The operators take the maps and return the maps after.
\* ------------------------------------------------------------------------
\* NewFake: the zone used when a call gives none
defaultZone == ZoneFrPar1

\* "if zone == scw.Zone("") { zone = f.defaultZone }", the head of each method
zoneOrDefault(zone) == IF zone = NoZone THEN defaultZone ELSE zone

\* NewSize: the error of a size
NewSizeErr(size) == IF size < 0 THEN OtherError ELSE NoError

\* Fake.GetVolume: [err, volume]
FakeGetVolume(vols, volumeID, zone) ==
    IF volumeID \in DOMAIN vols /\ vols[volumeID].Zone = zoneOrDefault(zone)
    THEN [err |-> NoError, volume |-> vols[volumeID]]
    ELSE [err |-> ResourceNotFoundError, volume |-> Nil]

\* Fake.GetServer: [err, server]
FakeGetServer(srvs, serverID, zone) ==
    IF serverID \in DOMAIN srvs /\ srvs[serverID].Zone = zoneOrDefault(zone)
    THEN [err |-> NoError, server |-> srvs[serverID]]
    ELSE [err |-> ResourceNotFoundError, server |-> Nil]

\* Fake.GetSnapshot: [err, snapshot]
FakeGetSnapshot(snaps, snapshotID, zone) ==
    IF snapshotID \in DOMAIN snaps /\ snaps[snapshotID].Zone = zoneOrDefault(zone)
    THEN [err |-> NoError, snapshot |-> snaps[snapshotID]]
    ELSE [err |-> ResourceNotFoundError, snapshot |-> Nil]

\* Fake.WaitForSnapshot
FakeWaitForSnapshot(snaps, snapshotID, zone) == FakeGetSnapshot(snaps, snapshotID, zone)

\* Fake.AttachVolume, the precondition on the volume's status
attachStatusError(v) == v.Status # VolumeStatusAvailable

\* a faulty variant of attachReferences: the reference is appended in the
\* slot loop as well
attachReferencesTwice(v, serverID) ==
    LET reference == [ProductResourceType |-> InstanceServerProductResourceType,
                      ProductResourceID |-> serverID]
    IN  Append(Append(v.References, reference), reference)

\* Fake.AttachVolume, the references of the volume after the attach (the
\* uuid of the reference is never read and is left out)
attachReferences(v, serverID) ==
    Append(v.References,
           [ProductResourceType |-> InstanceServerProductResourceType,
            ProductResourceID |-> serverID])

\* Fake.AttachVolume, the slot loop: the first free key of s.Volumes
firstFreeSlot(s) ==
    CHOOSE i \in 0..Cardinality(DOMAIN s.Volumes) :
        /\ i \notin DOMAIN s.Volumes
        /\ \A j \in 0..(i - 1) : j \in DOMAIN s.Volumes

\* Fake.AttachVolume: [err, volumes, servers]
FakeAttachVolume(vols, srvs, serverID, volumeID, zone) ==
    LET z == zoneOrDefault(zone)
        fail(e) == [err |-> e, volumes |-> vols, servers |-> srvs]
    IN  IF ~(serverID \in DOMAIN srvs /\ srvs[serverID].Zone = z)
        THEN fail(ResourceNotFoundError)
        ELSE IF ~(volumeID \in DOMAIN vols /\ vols[volumeID].Zone = z)
        THEN fail(ResourceNotFoundError)
        ELSE IF Cardinality(DOMAIN srvs[serverID].Volumes) = MaxVolumesPerNode
        THEN fail(OtherError)
        ELSE IF attachStatusError(vols[volumeID])
        THEN fail(OtherError)
        ELSE LET s == srvs[serverID]
                 v == vols[volumeID]
             IN  [err |-> NoError,
                  volumes |-> [vols EXCEPT ![volumeID] =
                      [v EXCEPT !.References = attachReferences(v, serverID),
                                !.Status = VolumeStatusInUse]],
                  servers |-> [srvs EXCEPT ![serverID].Volumes =
                      MapPut(s.Volumes, firstFreeSlot(s), volumeID)]]

\* Fake.DetachVolume: the set of [err, volumes, servers] it may produce (the
\* slot is found by a Go map range, which stops at the first match)
FakeDetachVolume(vols, srvs, volumeID, zone) ==
    LET z == zoneOrDefault(zone)
        fail(e) == {[err |-> e, volumes |-> vols, servers |-> srvs]}
    IN  IF ~(volumeID \in DOMAIN vols /\ vols[volumeID].Zone = z)
        THEN fail(ResourceNotFoundError)
        ELSE LET v == vols[volumeID] IN
        IF v.Status # VolumeStatusInUse \/ Len(v.References) = 0
        THEN fail(OtherError)
        ELSE LET sid == v.References[1].ProductResourceID IN
        IF ~(sid \in DOMAIN srvs /\ srvs[sid].Zone = z)
        THEN fail(ResourceNotFoundError)
        ELSE LET s == srvs[sid]
                 slots == {k \in DOMAIN s.Volumes : s.Volumes[k] = volumeID}
                 after == [vols EXCEPT ![volumeID] =
                              [v EXCEPT !.References = <<>>,
                                        !.Status = VolumeStatusAvailable]]
             IN  IF slots = {}
                 THEN {[err |-> NoError, volumes |-> after, servers |-> srvs]}
                 ELSE {[err |-> NoError, volumes |-> after,
                        servers |-> [srvs EXCEPT ![sid].Volumes = MapDelete(s.Volumes, k)]] :
                       k \in slots}

\* Fake.DeleteVolume: [err, volumes]; the error is always the not-found error
FakeDeleteVolume(vols, volumeID, zone) ==
    [err |-> ResourceNotFoundError,
     volumes |-> IF volumeID \in DOMAIN vols /\ vols[volumeID].Zone = zoneOrDefault(zone)
                 THEN MapDelete(vols, volumeID)
                 ELSE vols]

\* Fake.DeleteSnapshot: [err, snapshots]; the error is always the not-found error
FakeDeleteSnapshot(snaps, snapshotID, zone) ==
    [err |-> ResourceNotFoundError,
     snapshots |-> IF snapshotID \in DOMAIN snaps /\ snaps[snapshotID].Zone = zoneOrDefault(zone)
                   THEN MapDelete(snaps, snapshotID)
                   ELSE snaps]

\* Fake.ResizeVolume: [err, volumes]
\* a faulty variant of FakeResizeVolume: the volume gets the minimum size
FakeResizeVolumeToMinimum(vols, volumeID, zone, size) ==
    IF volumeID \in DOMAIN vols /\ vols[volumeID].Zone = zoneOrDefault(zone)
    THEN [err |-> NoError, volumes |-> [vols EXCEPT ![volumeID].Size = MinVolumeSize]]
    ELSE [err |-> ResourceNotFoundError, volumes |-> vols]

FakeResizeVolume(vols, volumeID, zone, size) ==
    IF NewSizeErr(size) # NoError THEN [err |-> OtherError, volumes |-> vols]
    ELSE IF volumeID \in DOMAIN vols /\ vols[volumeID].Zone = zoneOrDefault(zone)
    THEN IF size < vols[volumeID].Size
         THEN [err |-> OtherError, volumes |-> vols]
         ELSE [err |-> NoError, volumes |-> [vols EXCEPT ![volumeID].Size = size]]
    ELSE [err |-> ResourceNotFoundError, volumes |-> vols]

\* Fake.CreateVolume, the size of the new volume
createdSize(snaps, snapshotID, size) ==
    IF snapshotID # "" THEN snaps[snapshotID].Size ELSE size

\* Fake.CreateVolume with id the value of uuid.NewString(): [err, volume, volumes]
FakeCreateVolume(vols, snaps, id, name, snapshotID, size, perfIOPS, zone) ==
    LET z == zoneOrDefault(zone) IN
    IF NewSizeErr(size) # NoError
    THEN [err |-> OtherError, volume |-> Nil, volumes |-> vols]
    ELSE IF snapshotID # "" /\ ~(snapshotID \in DOMAIN snaps /\ snaps[snapshotID].Zone = z)
    THEN [err |-> ResourceNotFoundError, volume |-> Nil, volumes |-> vols]
    ELSE LET volume ==
                 [ID |-> id, Name |-> name, Zone |-> z,
                  Status |-> VolumeStatusAvailable,
                  References |-> <<>>,
                  PerfIops |-> IF perfIOPS = <<>> THEN <<5000>> ELSE <<>>,
                  ParentSnapshotID |-> IF snapshotID # "" THEN <<snapshotID>> ELSE <<>>,
                  Size |-> createdSize(snaps, snapshotID, size)]
         IN  [err |-> NoError, volume |-> volume, volumes |-> MapPut(vols, id, volume)]

\* Fake.GetVolumeByName: the set of [err, volume] it may return (the volume
\* is found by a Go map range, which stops at the first match)
\* a faulty variant of FakeGetVolumeByName: the size is not compared
FakeGetVolumeByNameAnySize(vols, name, size, zone) ==
    LET z == zoneOrDefault(zone)
        matches == {id \in DOMAIN vols : vols[id].Name = name /\ vols[id].Zone = z}
    IN  IF matches = {} THEN {[err |-> ErrVolumeNotFound, volume |-> Nil]}
        ELSE {[err |-> NoError, volume |-> vols[id]] : id \in matches}

FakeGetVolumeByName(vols, name, size, zone) ==
    LET z == zoneOrDefault(zone)
        matches == {id \in DOMAIN vols : vols[id].Name = name /\ vols[id].Zone = z}
    IN  IF matches = {} THEN {[err |-> ErrVolumeNotFound, volume |-> Nil]}
        ELSE {IF vols[id].Size # size
              THEN [err |-> ErrVolumeDifferentSize, volume |-> Nil]
              ELSE [err |-> NoError, volume |-> vols[id]] : id \in matches}

\* Fake.CreateSnapshot with id the value of uuid.NewString(): [err, snapshot, snapshots]
FakeCreateSnapshot(vols, snaps, id, name, volumeID, zone) ==
    LET z == zoneOrDefault(zone) IN
    IF ~(volumeID \in DOMAIN vols /\ vols[volumeID].Zone = z)
    THEN [err |-> OtherError, snapshot |-> Nil, snapshots |-> snaps]
    ELSE LET snapshot ==
                 [ID |-> id, Name |-> name,
                  ParentVolume |-> [ID |-> volumeID, Name |-> vols[volumeID].Name],
                  Size |-> vols[volumeID].Size,
                  Status |-> SnapshotStatusAvailable, Zone |-> z]
         IN  [err |-> NoError, snapshot |-> snapshot,
              snapshots |-> MapPut(snaps, id, snapshot)]

\* Fake.GetSnapshotByName: the set of [err, snapshot] it may return
\* a faulty variant of FakeGetSnapshotByName: no snapshot is ever found
FakeGetSnapshotByNameNone(snaps, name, sourceVolumeID, zone) ==
    {[err |-> ErrSnapshotNotFound, snapshot |-> Nil]}

FakeGetSnapshotByName(snaps, name, sourceVolumeID, zone) ==
    LET z == zoneOrDefault(zone)
        matches == {id \in DOMAIN snaps : snaps[id].Name = name /\ snaps[id].Zone = z}
    IN  IF matches = {} THEN {[err |-> ErrSnapshotNotFound, snapshot |-> Nil]}
        ELSE {IF snaps[id].ParentVolume # Nil /\ snaps[id].ParentVolume.ID # sourceVolumeID
              THEN [err |-> ErrSnapshotExists, snapshot |-> Nil]
              ELSE [err |-> NoError, snapshot |-> snaps[id]] : id \in matches}

\* ------------------------------------------------------------------------
\* State
\* ------------------------------------------------------------------------
VARIABLES
    volumes,       \* Fake.volumes: volume ID -> block.Volume
    snapshots,     \* Fake.snapshots: snapshot ID -> block.Snapshot
    servers,       \* Fake.servers: server ID -> instance.Server
    nextVolume,    \* number of the next volume uuid
    nextSnapshot,  \* number of the next snapshot uuid
    locks,         \* controllerService.locks: the names that are locked
    tasks,         \* the RPC each gRPC goroutine runs, its position and locals
    firstPublish,  \* history: volume ID -> the publish context that the
                   \* ControllerPublishVolume that attached the volume returned
    host           \* the instance the node service runs on: its devices, LUKS
                   \* mappings, paths and mount table, and its metadata

vars == <<volumes, snapshots, servers, nextVolume, nextSnapshot, locks, tasks, firstPublish,
          host>>

\* DriverConfig.Prefix
Prefix == ""

\* the servers given to NewFake: srv-1 has one free slot left, srv-2 holds
\* its root volume only
InitialServers ==
    [id \in {"srv-1", "srv-2"} |->
        [ID |-> id, Zone |-> ZoneFrPar1,
         Volumes |-> [k \in 0..((IF id = "srv-1" THEN MaxVolumesPerNode - 1 ELSE 1) - 1)
                         |-> NewUUID("ext-", k)]]]

\* a request with no field set
EmptyRequest ==
    [Name |-> "", VolumeCapabilities |-> <<>>, VolumeCapability |-> Nil,
     Parameters |-> <<>>, CapacityRange |-> Nil, VolumeContentSource |-> Nil,
     AccessibilityRequirements |-> Nil, VolumeId |-> <<"">>, NodeId |-> <<"">>,
     SourceVolumeId |-> <<"">>, SnapshotId |-> <<"">>,
     StartingToken |-> "", MaxEntries |-> 0]

\* a response with no field set
EmptyResponse ==
    [code |-> OK, Volume |-> Nil, VolumeContext |-> Nil, PublishContext |-> Nil,
     Snapshot |-> Nil, CapacityBytes |-> 0, NodeExpansionRequired |-> FALSE,
     Entries |-> <<>>, NextToken |-> ""]

\* an error response
ErrorResponse(code) == [EmptyResponse EXCEPT !.code = code]

\* a goroutine that runs no RPC
IdleTask ==
    [kind |-> "none", pc |-> "idle", req |-> EmptyRequest,
     volumeID |-> "", volumeZone |-> NoZone, nodeID |-> "", nodeZone |-> NoZone,
     name |-> "", size |-> 0, snapshotID |-> "", perfIOPS |-> <<>>,
     encrypted |-> FALSE, nodeExpansionRequired |-> FALSE,
     zones |-> <<>>, i |-> 0, errs |-> <<>>,
     volumeResp |-> Nil, server |-> Nil, snapshot |-> Nil,
     locked |-> FALSE, calls |-> <<>>, before |-> Nil, seenVolumes |-> -1,
     resp |-> Nil, prev |-> Nil, racing |-> {}, from |-> 0, listed |-> <<>>,
     after |-> Nil]

InFlight(tk) == tk.pc \notin {"idle", "done"}

\* the instance before any volume reaches it: devices are the volumes with
\* a block device under /dev/disk/by-id, luks those with a LUKS header,
\* mapped those with an open mapping, filesystems the sources that hold a
\* filesystem, paths the kind of each path that exists, mounts the source
\* of each mount point, scratch the scratch volumes of the metadata
InitialHost ==
    [devices |-> {}, luks |-> {}, mapped |-> {}, filesystems |-> {},
     paths |-> <<>>, mounts |-> <<>>, scratch |-> 0]

Init ==
    /\ volumes = <<>>
    /\ snapshots = <<>>
    /\ servers = InitialServers
    /\ nextVolume = 1
    /\ nextSnapshot = 1
    /\ locks = {}
    /\ tasks = [t \in Tasks |-> IdleTask]
    /\ firstPublish = <<>>
    /\ host = InitialHost

\* ------------------------------------------------------------------------
\* The frame of an RPC: its start, its return and the per-volume lock
\* ------------------------------------------------------------------------
\* the gRPC server starts the handler of kind for req on goroutine t; the
\* record keeps the response of the RPC that t ran just before when that was
\* the same call (prev), and the goroutines that are in flight (racing)
Start(t, kind, req) ==
    [IdleTask EXCEPT !.kind = kind, !.req = req,
                     !.prev = IF tasks[t].kind = kind /\ tasks[t].req = req
                              THEN tasks[t].resp ELSE Nil,
                     !.racing = {u \in Tasks \ {t} : InFlight(tasks[u])}]

\* the record of goroutine u once t starts a new RPC
Forget(t, u) == [tasks[u] EXCEPT !.racing = @ \ {t}]

\* the goroutines after t's handler moved to tk (starting: it has just started)
SetTask(t, tk, starting) ==
    tasks' = [u \in Tasks |-> IF u = t THEN tk
                              ELSE IF starting THEN Forget(t, u)
                              ELSE tasks[u]]

\* the handler of t continues as tk
Continue(t, tk, starting) == SetTask(t, tk, starting)

\* a faulty variant of lockName: the ID as the request spells it
lockNameOfRequest(tk) ==
    IF tk.kind = "CreateSnapshot" THEN tk.req.SourceVolumeId ELSE tk.req.VolumeId

\* a faulty variant of unlockOnReturn: the lock is not released
unlockNever(tk) == locks

\* the name under which an RPC locks: the ID that ExtractIDAndZone returned
\* a faulty variant of lockName: one lock for all volumes
lockNameGlobal(tk) == "global"

lockName(tk) == tk.volumeID

\* "defer d.locks.Unlock(volumeID)": the lock store after tk returns
unlockOnReturn(tk) == IF tk.locked THEN locks \ {lockName(tk)} ELSE locks

\* the handler of t returns resp
Return(t, tk, resp, starting) ==
    /\ SetTask(t, [tk EXCEPT !.pc = "done", !.resp = resp, !.locked = FALSE], starting)
    /\ locks' = unlockOnReturn(tk)

\* the handler of t, holding no lock, returns resp (not Nil) or continues as tk
ReturnOrContinue(t, tk, resp, starting) ==
    IF resp # Nil THEN Return(t, tk, resp, starting)
    ELSE Continue(t, tk, starting) /\ UNCHANGED locks

\* the handler of t, holding its lock or none, returns resp or continues
Proceed(t, tk, resp) == ReturnOrContinue(t, tk, resp, FALSE)

Called(tk, call) == [tk EXCEPT !.calls = Append(@, call)]

\* ------------------------------------------------------------------------
\* CreateVolume
\* ------------------------------------------------------------------------
\* CreateVolume up to the call of getOrCreateVolume: the set of
\* [code, name, size, perfIOPS, encrypted, snapshotID, zones] it may compute
\* (code is OK, or the code of the error it returns)
createVolumeArguments(req) ==
    LET fail(code) == [code |-> code, name |-> "", size |-> 0, perfIOPS |-> <<>>,
                       encrypted |-> FALSE, snapshotID |-> "", zones |-> <<>>]
        capacity == getVolumeRequestCapacity(req.CapacityRange)
        source == req.VolumeContentSource
        extracted == IF source # Nil /\ source.type = "snapshot" /\ source.snapshot # Nil
                     THEN ExtractIDAndZone(source.snapshot.SnapshotId)
                     ELSE [err |-> NoError, id |-> "", zone |-> NoZone]
    IN  IF req.Name = "" THEN {fail(InvalidArgument)}
        ELSE IF validateVolumeCapabilities(req.VolumeCapabilities, FALSE) # NoError
        THEN {fail(InvalidArgument)}
        ELSE UNION {
            IF p.err # NoError THEN {fail(InvalidArgument)}
            ELSE IF capacity.err # NoError THEN {fail(OutOfRange)}
            ELSE IF source # Nil /\ source.type # "snapshot" THEN {fail(InvalidArgument)}
            ELSE IF source # Nil /\ source.snapshot = Nil THEN {fail(Internal)}
            ELSE IF extracted.err # NoError THEN {fail(InvalidArgument)}
            ELSE {IF z.err # NoError THEN fail(InvalidArgument)
                  ELSE [code |-> OK, name |-> Prefix \o req.Name, size |-> capacity.size,
                        perfIOPS |-> p.perfIOPS, encrypted |-> p.encrypted,
                        snapshotID |-> extracted.id, zones |-> z.zones] :
                  z \in chooseZones(req.AccessibilityRequirements, extracted.zone)} :
            p \in parseCreateVolumeParams(req.Parameters)}

\* the response of CreateVolume for the volume found or created
createVolumeResponse(tk, volume) ==
    [EmptyResponse EXCEPT !.Volume = csiVolume(volume),
                          !.VolumeContext = [encrypted |-> tk.encrypted]]

\* codeFromScalewayError of errors.Join(errs...)
codeFromJoinedErrors(errs) ==
    IF \E i \in DOMAIN errs : codeFromScalewayError(errs[i]) = AlreadyExists THEN AlreadyExists
    ELSE IF \E i \in DOMAIN errs : codeFromScalewayError(errs[i]) = NotFound THEN NotFound
    ELSE IF \E i \in DOMAIN errs : codeFromScalewayError(errs[i]) = FailedPrecondition
    THEN FailedPrecondition
    ELSE Internal

\* CreateVolume is called: CreateVolume up to getOrCreateVolume's first loop
BeginCreateVolume(t, req) ==
    /\ ~InFlight(tasks[t])
    /\ \E a \in createVolumeArguments(req) :
         LET tk == [Start(t, "CreateVolume", req) EXCEPT
                       !.pc = "GetVolumeByName", !.name = a.name, !.size = a.size,
                       !.perfIOPS = a.perfIOPS, !.encrypted = a.encrypted,
                       !.snapshotID = a.snapshotID,
                       !.zones = IF Len(a.zones) = 0 THEN <<NoZone>> ELSE a.zones,
                       !.i = 1]
         IN  ReturnOrContinue(t, tk,
                 IF a.code # OK THEN ErrorResponse(a.code)
                 ELSE IF NewSizeErr(a.size) # NoError THEN ErrorResponse(Internal)
                 ELSE Nil, TRUE)
    /\ UNCHANGED <<host, firstPublish, volumes, snapshots, servers, nextVolume, nextSnapshot>>

\* getOrCreateVolume, one turn of the first loop
StepGetVolumeByName(t) ==
    /\ tasks[t].pc = "GetVolumeByName"
    /\ \E r \in FakeGetVolumeByName(volumes, tasks[t].name, tasks[t].size,
                                    tasks[t].zones[tasks[t].i]) :
         LET tk == Called(tasks[t], "GetVolumeByName")
             last == tk.i = Len(tk.zones)
         IN  Proceed(t,
                 IF last THEN [tk EXCEPT !.pc = "CreateVolume", !.i = 1]
                 ELSE [tk EXCEPT !.i = @ + 1],
                 IF r.err # NoError /\ r.err # ErrVolumeNotFound
                 THEN ErrorResponse(codeFromScalewayError(r.err))
                 ELSE IF r.volume # Nil THEN createVolumeResponse(tk, r.volume)
                 ELSE Nil)
    /\ UNCHANGED <<host, firstPublish, volumes, snapshots, servers, nextVolume, nextSnapshot>>

\* getOrCreateVolume, one turn of the second loop
StepCreateVolume(t) ==
    /\ tasks[t].pc = "CreateVolume"
    /\ nextVolume <= MaxVolumes
    /\ LET tk == Called(tasks[t], "CreateVolume")
           r == FakeCreateVolume(volumes, snapshots, NewUUID("vol-", nextVolume),
                                 tk.name, tk.snapshotID, tk.size, tk.perfIOPS,
                                 tk.zones[tk.i])
           errs == Append(tk.errs, r.err)
       IN  /\ volumes' = r.volumes
           /\ nextVolume' = IF r.err = NoError THEN nextVolume + 1 ELSE nextVolume
           /\ Proceed(t, [tk EXCEPT !.i = @ + 1, !.errs = errs],
                  IF r.err = NoError THEN createVolumeResponse(tk, r.volume)
                  ELSE IF tk.i = Len(tk.zones)
                  THEN ErrorResponse(codeFromJoinedErrors(errs))
                  ELSE Nil)
    /\ UNCHANGED <<host, firstPublish, snapshots, servers, nextSnapshot>>

\* a faulty variant of Lock: it does not wait for the holder of the name
LockWithoutWait(t, tk, resp) ==
    LET held == [tk EXCEPT !.locked = TRUE]
    IN  IF resp # Nil THEN Return(t, held, resp, FALSE)
        ELSE Continue(t, held, FALSE) /\ locks' = locks \cup {lockName(tk)}

\* "d.locks.Lock(volumeID)" of t's handler, which then returns resp (not Nil)
\* or continues as tk
Lock(t, tk, resp) ==
    /\ lockName(tk) \notin locks
    /\ LET held == [tk EXCEPT !.locked = TRUE]
       IN  IF resp # Nil THEN Return(t, held, resp, FALSE)
           ELSE Continue(t, held, FALSE) /\ locks' = locks \cup {lockName(tk)}

\* ------------------------------------------------------------------------
\* DeleteVolume
\* ------------------------------------------------------------------------
\* the volume of that ID in the Fake, or Nil
stored(volumeID) == IF volumeID \in DOMAIN volumes THEN volumes[volumeID] ELSE Nil

\* a faulty variant of deleteResponse: not-found is an error like any other
deleteResponseStrict(err) ==
    IF err # NoError THEN ErrorResponse(codeFromScalewayError(err)) ELSE EmptyResponse

\* DeleteVolume and DeleteSnapshot, the response for the error of the cloud
\* client's delete: not-found is success
deleteResponse(err) ==
    IF err # NoError /\ codeFromScalewayError(err) # NotFound
    THEN ErrorResponse(codeFromScalewayError(err))
    ELSE EmptyResponse

\* DeleteVolume is called: DeleteVolume up to d.scaleway.DeleteVolume
BeginDeleteVolume(t, req) ==
    /\ ~InFlight(tasks[t])
    /\ LET v == ExtractIDAndZone(req.VolumeId)
           tk == [Start(t, "DeleteVolume", req) EXCEPT
                     !.pc = "DeleteVolume", !.volumeID = v.id, !.volumeZone = v.zone]
       IN  ReturnOrContinue(t, tk,
               IF v.err # NoError THEN ErrorResponse(InvalidArgument) ELSE Nil, TRUE)
    /\ UNCHANGED <<host, firstPublish, volumes, snapshots, servers, nextVolume, nextSnapshot>>

\* a faulty variant of DeleteVolumeCall: the snapshots of the volume are
\* deleted with it
DeleteVolumeCascade(t) ==
    /\ tasks[t].kind = "DeleteVolume" /\ tasks[t].pc = "DeleteVolume"
    /\ LET tk == [Called(tasks[t], "DeleteVolume") EXCEPT !.before = stored(tasks[t].volumeID)]
           r == FakeDeleteVolume(volumes, tk.volumeID, tk.volumeZone)
       IN  /\ volumes' = r.volumes
           /\ snapshots' = [id \in {s \in DOMAIN snapshots :
                                       snapshots[s].ParentVolume.ID \in DOMAIN r.volumes}
                               |-> snapshots[id]]
           /\ firstPublish' = [id \in DOMAIN firstPublish \cap DOMAIN r.volumes |->
                                  firstPublish[id]]
           /\ Proceed(t, tk, deleteResponse(r.err))
    /\ UNCHANGED <<host, servers, nextVolume, nextSnapshot>>

\* DeleteVolume from d.scaleway.DeleteVolume on
DeleteVolumeCall(t) ==
    /\ tasks[t].kind = "DeleteVolume" /\ tasks[t].pc = "DeleteVolume"
    /\ LET tk == [Called(tasks[t], "DeleteVolume") EXCEPT !.before = stored(tasks[t].volumeID)]
           r == FakeDeleteVolume(volumes, tk.volumeID, tk.volumeZone)
       IN  /\ volumes' = r.volumes
           /\ firstPublish' = [id \in DOMAIN firstPublish \cap DOMAIN r.volumes |->
                                  firstPublish[id]]
           /\ Proceed(t, tk, deleteResponse(r.err))
    /\ UNCHANGED <<host, snapshots, servers, nextVolume, nextSnapshot>>

\* ------------------------------------------------------------------------
\* ControllerPublishVolume
\* ------------------------------------------------------------------------
\* the start of the RPCs that take a volume ID and a node ID
extractVolumeAndNode(t, kind, req) ==
    LET v == ExtractIDAndZone(req.VolumeId)
        n == ExtractIDAndZone(req.NodeId)
        tk == [Start(t, kind, req) EXCEPT
                  !.pc = "Lock", !.volumeID = v.id, !.volumeZone = v.zone,
                  !.nodeID = n.id, !.nodeZone = n.zone]
    IN  ReturnOrContinue(t, tk,
            IF v.err # NoError THEN ErrorResponse(InvalidArgument)
            ELSE IF n.err # NoError THEN ErrorResponse(InvalidArgument)
            ELSE Nil, TRUE)

\* ControllerPublishVolume is called: up to d.locks.Lock
BeginControllerPublishVolume(t, req) ==
    /\ ~InFlight(tasks[t])
    /\ extractVolumeAndNode(t, "ControllerPublishVolume", req)
    /\ UNCHANGED <<host, firstPublish, volumes, snapshots, servers, nextVolume, nextSnapshot>>

\* ControllerPublishVolume from d.locks.Lock up to d.scaleway.GetVolume
PublishLock(t) ==
    /\ tasks[t].kind = "ControllerPublishVolume" /\ tasks[t].pc = "Lock"
    /\ Lock(t, [tasks[t] EXCEPT !.pc = "GetVolume"],
            IF validateVolumeCapabilities(<<tasks[t].req.VolumeCapability>>, FALSE) # NoError
            THEN ErrorResponse(InvalidArgument) ELSE Nil)
    /\ UNCHANGED <<host, firstPublish, volumes, snapshots, servers, nextVolume, nextSnapshot>>

\* ControllerPublishVolume from d.scaleway.GetVolume up to d.scaleway.GetServer
PublishGetVolume(t) ==
    /\ tasks[t].kind = "ControllerPublishVolume" /\ tasks[t].pc = "GetVolume"
    /\ LET r == FakeGetVolume(volumes, tasks[t].volumeID, tasks[t].volumeZone)
           tk == [Called(tasks[t], "GetVolume") EXCEPT !.pc = "GetServer",
                                                       !.volumeResp = r.volume]
       IN  Proceed(t, tk,
               IF r.err # NoError THEN ErrorResponse(codeFromScalewayError(r.err))
               ELSE Nil)
    /\ UNCHANGED <<host, firstPublish, volumes, snapshots, servers, nextVolume, nextSnapshot>>

\* the publish context of a volume
publishContext(volumeResp) ==
    [volumeName |-> volumeResp.Name, volumeID |-> volumeResp.ID,
     volumeZone |-> volumeResp.Zone]

\* a faulty variant of alreadyAttached: an attached volume is always a conflict
attachedIsConflict(volumeResp, server) ==
    IF Len(publishedNodeIDs(volumeResp)) # 0 THEN ErrorResponse(FailedPrecondition)
    ELSE Nil

\* a faulty variant of alreadyAttached: the server of the attachment is not
\* compared with the requested one
attachedIsSuccess(volumeResp, server) ==
    IF Len(publishedNodeIDs(volumeResp)) # 0
    THEN [EmptyResponse EXCEPT !.PublishContext = publishContext(volumeResp)]
    ELSE Nil

\* ControllerPublishVolume, "Is the volume already attached?": the response
\* when it is, Nil when it is not
alreadyAttached(volumeResp, server) ==
    LET volumeServerIDs == publishedNodeIDs(volumeResp)
    IN  IF Len(volumeServerIDs) # 0
        THEN IF volumeServerIDs[1] = expandZonalID(server.ID, server.Zone)
             THEN [EmptyResponse EXCEPT !.PublishContext = publishContext(volumeResp)]
             ELSE ErrorResponse(FailedPrecondition)
        ELSE Nil

\* ControllerPublishVolume from d.scaleway.GetServer up to the test of
\* len(server.Volumes)
PublishGetServer(t) ==
    /\ tasks[t].kind = "ControllerPublishVolume" /\ tasks[t].pc = "GetServer"
    /\ LET r == FakeGetServer(servers, tasks[t].nodeID, tasks[t].nodeZone)
           tk == [Called(tasks[t], "GetServer") EXCEPT !.pc = "AttachVolume",
                                                       !.server = r.server]
       IN  Proceed(t, tk,
               IF r.err # NoError THEN ErrorResponse(codeFromScalewayError(r.err))
               ELSE alreadyAttached(tk.volumeResp, r.server))
    /\ UNCHANGED <<host, firstPublish, volumes, snapshots, servers, nextVolume, nextSnapshot>>

\* a faulty variant of lenServerVolumes: the root volume is not counted
lenServerVolumesLess(server) ==
    {Cardinality(DOMAIN server.Volumes) - 1,
     Cardinality(DOMAIN servers[server.ID].Volumes) - 1}

\* the values len(server.Volumes) may give: the Fake returns a pointer to
\* its own server, whose map other goroutines change under the Fake's mutex
\* only, so the read is of the map as it was fetched or as it is now
lenServerVolumes(server) ==
    {Cardinality(DOMAIN server.Volumes), Cardinality(DOMAIN servers[server.ID].Volumes)}

\* ControllerPublishVolume from the test of len(server.Volumes) on
PublishAttachVolume(t) ==
    /\ tasks[t].kind = "ControllerPublishVolume" /\ tasks[t].pc = "AttachVolume"
    /\ \E n \in lenServerVolumes(tasks[t].server) :
         LET seen == [tasks[t] EXCEPT !.seenVolumes = n,
                                      !.before = stored(tasks[t].volumeID)]
             tk == Called(seen, "AttachVolume")
             r == FakeAttachVolume(volumes, servers, tk.nodeID, tk.volumeID, tk.volumeZone)
         IN  IF n = MaxVolumesPerNode
             THEN /\ Proceed(t, seen, ErrorResponse(ResourceExhausted))
                  /\ UNCHANGED <<host, volumes, servers, firstPublish>>
             ELSE /\ volumes' = r.volumes
                  /\ servers' = r.servers
                  /\ firstPublish' =
                         IF r.err # NoError THEN firstPublish
                         ELSE MapPut(firstPublish, tk.volumeID, publishContext(tk.volumeResp))
                  /\ Proceed(t, tk,
                         IF r.err # NoError THEN ErrorResponse(Internal)
                         ELSE [EmptyResponse EXCEPT
                                  !.PublishContext = publishContext(tk.volumeResp)])
    /\ UNCHANGED <<host, snapshots, nextVolume, nextSnapshot>>

\* ------------------------------------------------------------------------
\* ControllerUnpublishVolume
\* ------------------------------------------------------------------------
\* ControllerUnpublishVolume is called: up to d.locks.Lock
BeginControllerUnpublishVolume(t, req) ==
    /\ ~InFlight(tasks[t])
    /\ extractVolumeAndNode(t, "ControllerUnpublishVolume", req)
    /\ UNCHANGED <<host, firstPublish, volumes, snapshots, servers, nextVolume, nextSnapshot>>

\* ControllerUnpublishVolume from d.locks.Lock up to d.scaleway.GetVolume
UnpublishLock(t) ==
    /\ tasks[t].kind = "ControllerUnpublishVolume" /\ tasks[t].pc = "Lock"
    /\ Lock(t, [tasks[t] EXCEPT !.pc = "GetVolume"], Nil)
    /\ UNCHANGED <<host, firstPublish, volumes, snapshots, servers, nextVolume, nextSnapshot>>

\* a faulty variant of notFoundIsSuccess: not-found is an error like any other
notFoundIsError(err) == ErrorResponse(codeFromScalewayError(err))

\* a cloud client error on a path where not-found is success
notFoundIsSuccess(err) ==
    IF codeFromScalewayError(err) = NotFound THEN EmptyResponse
    ELSE ErrorResponse(codeFromScalewayError(err))

\* ControllerUnpublishVolume from d.scaleway.GetVolume up to d.scaleway.GetServer
UnpublishGetVolume(t) ==
    /\ tasks[t].kind = "ControllerUnpublishVolume" /\ tasks[t].pc = "GetVolume"
    /\ LET r == FakeGetVolume(volumes, tasks[t].volumeID, tasks[t].volumeZone)
           tk == [Called(tasks[t], "GetVolume") EXCEPT !.pc = "GetServer",
                                                       !.volumeResp = r.volume]
       IN  Proceed(t, tk,
               IF r.err # NoError THEN notFoundIsSuccess(r.err)
               ELSE IF Len(publishedNodeIDs(r.volume)) = 0 THEN EmptyResponse
               ELSE Nil)
    /\ UNCHANGED <<host, firstPublish, volumes, snapshots, servers, nextVolume, nextSnapshot>>

\* ControllerUnpublishVolume from d.scaleway.GetServer up to d.scaleway.DetachVolume
UnpublishGetServer(t) ==
    /\ tasks[t].kind = "ControllerUnpublishVolume" /\ tasks[t].pc = "GetServer"
    /\ LET r == FakeGetServer(servers, tasks[t].nodeID, tasks[t].nodeZone)
           tk == [Called(tasks[t], "GetServer") EXCEPT !.pc = "DetachVolume",
                                                       !.server = r.server]
       IN  Proceed(t, tk, IF r.err # NoError THEN notFoundIsSuccess(r.err) ELSE Nil)
    /\ UNCHANGED <<host, firstPublish, volumes, snapshots, servers, nextVolume, nextSnapshot>>

\* ControllerUnpublishVolume from d.scaleway.DetachVolume on
UnpublishDetachVolume(t) ==
    /\ tasks[t].kind = "ControllerUnpublishVolume" /\ tasks[t].pc = "DetachVolume"
    /\ \E r \in FakeDetachVolume(volumes, servers, tasks[t].volumeID, tasks[t].volumeZone) :
         /\ volumes' = r.volumes
         /\ servers' = r.servers
         /\ firstPublish' = IF r.err # NoError THEN firstPublish
                            ELSE MapDelete(firstPublish, tasks[t].volumeID)
         /\ Proceed(t, [Called(tasks[t], "DetachVolume") EXCEPT
                           !.before = stored(tasks[t].volumeID)],
                IF r.err # NoError THEN ErrorResponse(Internal) ELSE EmptyResponse)
    /\ UNCHANGED <<host, snapshots, nextVolume, nextSnapshot>>

\* ------------------------------------------------------------------------
\* ControllerExpandVolume
\* ------------------------------------------------------------------------
\* ControllerExpandVolume is called: up to d.locks.Lock
BeginControllerExpandVolume(t, req) ==
    /\ ~InFlight(tasks[t])
    /\ LET v == ExtractIDAndZone(req.VolumeId)
           tk == [Start(t, "ControllerExpandVolume", req) EXCEPT
                     !.pc = "Lock", !.volumeID = v.id, !.volumeZone = v.zone]
       IN  ReturnOrContinue(t, tk,
               IF v.err # NoError THEN ErrorResponse(InvalidArgument) ELSE Nil, TRUE)
    /\ UNCHANGED <<host, firstPublish, volumes, snapshots, servers, nextVolume, nextSnapshot>>

\* ControllerExpandVolume from d.locks.Lock up to d.scaleway.GetVolume
ExpandLock(t) ==
    /\ tasks[t].kind = "ControllerExpandVolume" /\ tasks[t].pc = "Lock"
    /\ LET volumeCapability == tasks[t].req.VolumeCapability
           c == validateVolumeCapability(volumeCapability)
       IN  Lock(t, [tasks[t] EXCEPT !.pc = "GetVolume",
                        !.nodeExpansionRequired = ~(volumeCapability # Nil /\ c.block)],
                IF volumeCapability # Nil /\ c.err # NoError
                THEN ErrorResponse(InvalidArgument) ELSE Nil)
    /\ UNCHANGED <<host, firstPublish, volumes, snapshots, servers, nextVolume, nextSnapshot>>

\* the response of ControllerExpandVolume
expandResponse(tk, size) ==
    [EmptyResponse EXCEPT !.CapacityBytes = size,
                          !.NodeExpansionRequired = tk.nodeExpansionRequired]

\* a faulty variant of alreadyLargeEnough: a volume of the target size is resized
strictlyLarger(volumeSize, newSize) == volumeSize > newSize

\* "volumeSize >= newSize": the volume is already larger than or equal to
\* the target capacity
alreadyLargeEnough(volumeSize, newSize) == volumeSize >= newSize

\* ControllerExpandVolume from d.scaleway.GetVolume up to d.scaleway.ResizeVolume
ExpandGetVolume(t) ==
    /\ tasks[t].kind = "ControllerExpandVolume" /\ tasks[t].pc = "GetVolume"
    /\ LET r == FakeGetVolume(volumes, tasks[t].volumeID, tasks[t].volumeZone)
           newSize == getVolumeRequestCapacity(tasks[t].req.CapacityRange)
           tk == [Called(tasks[t], "GetVolume") EXCEPT !.pc = "ResizeVolume",
                     !.volumeResp = r.volume, !.size = newSize.size]
       IN  Proceed(t, tk,
               IF r.err # NoError THEN ErrorResponse(codeFromScalewayError(r.err))
               ELSE IF newSize.err # NoError THEN ErrorResponse(OutOfRange)
               ELSE IF alreadyLargeEnough(r.volume.Size, newSize.size)
               THEN expandResponse(tk, r.volume.Size)
               ELSE Nil)
    /\ UNCHANGED <<host, firstPublish, volumes, snapshots, servers, nextVolume, nextSnapshot>>

\* ControllerExpandVolume from d.scaleway.ResizeVolume on
ExpandResizeVolume(t) ==
    /\ tasks[t].kind = "ControllerExpandVolume" /\ tasks[t].pc = "ResizeVolume"
    /\ LET tk == [Called(tasks[t], "ResizeVolume") EXCEPT !.before = stored(tasks[t].volumeID)]
           r == FakeResizeVolume(volumes, tk.volumeID, tk.volumeZone, tk.size)
       IN  /\ volumes' = r.volumes
           /\ Proceed(t, tk,
                  IF r.err # NoError THEN ErrorResponse(codeFromScalewayError(r.err))
                  ELSE expandResponse(tk, tk.size))
    /\ UNCHANGED <<host, firstPublish, snapshots, servers, nextVolume, nextSnapshot>>

\* ------------------------------------------------------------------------
\* CreateSnapshot
\* ------------------------------------------------------------------------
\* CreateSnapshot is called: up to d.locks.Lock
BeginCreateSnapshot(t, req) ==
    /\ ~InFlight(tasks[t])
    /\ LET v == ExtractIDAndZone(req.SourceVolumeId)
           tk == [Start(t, "CreateSnapshot", req) EXCEPT
                     !.pc = "Lock", !.volumeID = v.id, !.volumeZone = v.zone,
                     !.name = req.Name]
       IN  ReturnOrContinue(t, tk,
               IF v.err # NoError THEN ErrorResponse(InvalidArgument) ELSE Nil, TRUE)
    /\ UNCHANGED <<host, firstPublish, volumes, snapshots, servers, nextVolume, nextSnapshot>>

\* CreateSnapshot from d.locks.Lock up to GetSnapshotByName
SnapshotLock(t) ==
    /\ tasks[t].kind = "CreateSnapshot" /\ tasks[t].pc = "Lock"
    /\ Lock(t, [tasks[t] EXCEPT !.pc = "GetSnapshotByName"],
            IF tasks[t].name = "" THEN ErrorResponse(InvalidArgument) ELSE Nil)
    /\ UNCHANGED <<host, firstPublish, volumes, snapshots, servers, nextVolume, nextSnapshot>>

\* getOrCreateSnapshot from GetSnapshotByName up to CreateSnapshot or WaitForSnapshot
SnapshotGetSnapshotByName(t) ==
    /\ tasks[t].kind = "CreateSnapshot" /\ tasks[t].pc = "GetSnapshotByName"
    /\ \E r \in FakeGetSnapshotByName(snapshots, tasks[t].name, tasks[t].volumeID,
                                      tasks[t].volumeZone) :
         LET tk == [Called(tasks[t], "GetSnapshotByName") EXCEPT
                       !.pc = IF r.snapshot = Nil THEN "CreateSnapshot" ELSE "WaitForSnapshot",
                       !.snapshot = r.snapshot]
         IN  Proceed(t, tk,
                 IF r.err # NoError /\ r.err # ErrSnapshotNotFound
                 THEN ErrorResponse(codeFromScalewayError(r.err))
                 ELSE Nil)
    /\ UNCHANGED <<host, firstPublish, volumes, snapshots, servers, nextVolume, nextSnapshot>>

\* getOrCreateSnapshot from CreateSnapshot up to WaitForSnapshot
SnapshotCreateSnapshot(t) ==
    /\ tasks[t].kind = "CreateSnapshot" /\ tasks[t].pc = "CreateSnapshot"
    /\ nextSnapshot <= MaxSnapshots
    /\ LET r == FakeCreateSnapshot(volumes, snapshots, NewUUID("snap-", nextSnapshot),
                                   tasks[t].name, tasks[t].volumeID, tasks[t].volumeZone)
           tk == [Called(tasks[t], "CreateSnapshot") EXCEPT
                     !.pc = "WaitForSnapshot", !.snapshot = r.snapshot]
       IN  /\ snapshots' = r.snapshots
           /\ nextSnapshot' = IF r.err = NoError THEN nextSnapshot + 1 ELSE nextSnapshot
           /\ Proceed(t, tk,
                  IF r.err # NoError THEN ErrorResponse(codeFromScalewayError(r.err))
                  ELSE Nil)
    /\ UNCHANGED <<host, firstPublish, volumes, servers, nextVolume>>

\* a faulty variant of expectedStatus: every status is expected
anyStatus(status) == TRUE

\* "snapshot.Status != block.SnapshotStatusAvailable && snapshot.Status !=
\* block.SnapshotStatusInUse" is false: the snapshot is in an expected state
expectedStatus(status) == status \in {SnapshotStatusAvailable, SnapshotStatusInUse}

\* the end of CreateSnapshot: the response for what getOrCreateSnapshot gave
createSnapshotResponse(err, snapshot) ==
    IF err # NoError THEN ErrorResponse(codeFromScalewayError(err))
    ELSE IF ~expectedStatus(snapshot.Status) THEN ErrorResponse(Internal)
    ELSE [EmptyResponse EXCEPT !.Snapshot = csiSnapshot(snapshot)]

\* getOrCreateSnapshot from WaitForSnapshot on, and the end of CreateSnapshot
SnapshotWaitForSnapshot(t) ==
    /\ tasks[t].kind = "CreateSnapshot" /\ tasks[t].pc = "WaitForSnapshot"
    /\ LET r == FakeWaitForSnapshot(snapshots, tasks[t].snapshot.ID, tasks[t].volumeZone)
           tk == [Called(tasks[t], "WaitForSnapshot") EXCEPT !.snapshot = r.snapshot]
       IN  Proceed(t, tk, createSnapshotResponse(r.err, r.snapshot))
    /\ UNCHANGED <<host, firstPublish, volumes, snapshots, servers, nextVolume, nextSnapshot>>

\* ------------------------------------------------------------------------
\* The SDK-backed cloud client (type Scaleway)
\* ------------------------------------------------------------------------
\* the strings uuid.Parse accepts: the identifiers the Block Service hands out
\* the server ids that parse as uuids: those of the servers and one of no server
ServerUUIDs == {"srv-1", "srv-2", "srv-9"}

WellFormedUUIDs == VolumeUUIDs \cup SnapshotUUIDs \cup ServerUUIDs

\* a faulty variant of isValidUUID: every string passes
isValidUUIDAlways(u) == TRUE

\* isValidUUID: uuid.Parse(u) gives no error
isValidUUID(u) == u \in WellFormedUUIDs

\* s.block.DeleteVolume, a call of the Block Service: the set of [err,
\* volumes] it can answer with
BlockDeleteVolume(vols, volumeID, zone) ==
    {[err |-> OtherError, volumes |-> vols]} \cup
    IF volumeID \in DOMAIN vols /\ vols[volumeID].Zone = zoneOrDefault(zone)
    THEN IF vols[volumeID].References # <<>>
         THEN {[err |-> PreconditionFailedError, volumes |-> vols]}
         ELSE {[err |-> NoError, volumes |-> MapDelete(vols, volumeID)]}
    ELSE {[err |-> ResourceNotFoundError, volumes |-> vols]}

\* Scaleway.DeleteVolume: the set of [err, volumes, api], api the calls of
\* the Block Service it made
ScalewayDeleteVolume(vols, volumeID, zone) ==
    IF ~isValidUUID(volumeID)
    THEN {[err |-> ResourceNotFoundError, volumes |-> vols, api |-> <<>>]}
    ELSE {[err |-> o.err, volumes |-> o.volumes, api |-> <<"block.DeleteVolume">>] :
             o \in BlockDeleteVolume(vols, volumeID, zone)}

\* DeleteVolume from d.scaleway.DeleteVolume on, d.scaleway the SDK-backed
\* client
ClientDeleteVolumeCall(t) ==
    /\ tasks[t].kind = "DeleteVolume" /\ tasks[t].pc = "DeleteVolume"
    /\ \E r \in ScalewayDeleteVolume(volumes, tasks[t].volumeID, tasks[t].volumeZone) :
           LET tk == [tasks[t] EXCEPT !.calls = @ \o <<"DeleteVolume">> \o r.api,
                                      !.before = stored(tasks[t].volumeID)]
           IN  /\ volumes' = r.volumes
               /\ Proceed(t, tk, deleteResponse(r.err))
    /\ UNCHANGED <<host, firstPublish, snapshots, servers, nextVolume, nextSnapshot>>

\* Scaleway.GetSnapshotByName: the set of [err, snapshot]; the Block Service
\* lists the snapshots of the name in some order, or fails
ScalewayGetSnapshotByName(snaps, name, sourceVolumeID, zone) ==
    LET z == zoneOrDefault(zone)
        matches == {id \in DOMAIN snaps : snaps[id].Name = name /\ snaps[id].Zone = z}
    IN  {[err |-> OtherError, snapshot |-> Nil]} \cup
        IF matches = {} THEN {[err |-> ErrSnapshotNotFound, snapshot |-> Nil]}
        ELSE {IF snaps[id].ParentVolume # Nil /\ snaps[id].ParentVolume.ID # sourceVolumeID
              THEN [err |-> ErrSnapshotExists, snapshot |-> Nil]
              ELSE [err |-> NoError, snapshot |-> snaps[id]] : id \in matches}

\* Scaleway.CreateSnapshot: the set of [err, snapshot, snapshots]; the Block
\* Service answers with a snapshot that is being created
ScalewayCreateSnapshot(vols, snaps, id, name, volumeID, zone) ==
    LET z == zoneOrDefault(zone)
        snapshot == [ID |-> id, Name |-> name,
                     ParentVolume |-> [ID |-> volumeID, Name |-> vols[volumeID].Name],
                     Size |-> vols[volumeID].Size,
                     Status |-> SnapshotStatusCreating, Zone |-> z]
        called == <<"block.CreateSnapshot">>
    IN  IF ~isValidUUID(volumeID)
        THEN {[err |-> ResourceNotFoundError, snapshot |-> Nil, snapshots |-> snaps,
               api |-> <<>>]}
        ELSE {[err |-> OtherError, snapshot |-> Nil, snapshots |-> snaps,
               api |-> called]} \cup
             IF volumeID \in DOMAIN vols /\ vols[volumeID].Zone = z
             THEN {[err |-> NoError, snapshot |-> snapshot,
                    snapshots |-> MapPut(snaps, id, snapshot), api |-> called]}
             ELSE {[err |-> ResourceNotFoundError, snapshot |-> Nil, snapshots |-> snaps,
                    api |-> called]}

\* the statuses s.block.WaitForSnapshot stops waiting at
SnapshotTerminalStatuses ==
    {SnapshotStatusAvailable, SnapshotStatusInUse, SnapshotStatusError,
     SnapshotStatusDeleted, SnapshotStatusLocked}

\* Scaleway.WaitForSnapshot: the set of [err, snapshot, snapshots]; a
\* snapshot that is being created ends in any terminal status, or the wait
\* fails
ScalewayWaitForSnapshot(snaps, snapshotID, zone) ==
    LET called == <<"block.WaitForSnapshot">> IN
    IF ~isValidUUID(snapshotID)
    THEN {[err |-> ResourceNotFoundError, snapshot |-> Nil, snapshots |-> snaps,
           api |-> <<>>]}
    ELSE {[err |-> OtherError, snapshot |-> Nil, snapshots |-> snaps, api |-> called]} \cup
         IF snapshotID \in DOMAIN snaps /\ snaps[snapshotID].Zone = zoneOrDefault(zone)
         THEN {[err |-> NoError,
                snapshot |-> [snaps[snapshotID] EXCEPT !.Status = status],
                snapshots |-> [snaps EXCEPT ![snapshotID].Status = status],
                api |-> called] :
                  status \in IF snaps[snapshotID].Status = SnapshotStatusCreating
                             THEN SnapshotTerminalStatuses
                             ELSE {snaps[snapshotID].Status}}
         ELSE {[err |-> ResourceNotFoundError, snapshot |-> Nil, snapshots |-> snaps,
                api |-> called]}

\* maxPageSize for paginated lists
maxPageSize == 50

\* min returns the smaller of a or b
min(a, b) == IF a < b THEN a ELSE b

\* strconv.Itoa
Itoa(n) == ToString(n)

\* s.block.ListVolumes(Page, PageSize): the page of the list the Block
\* Service holds
BlockListVolumes(list, page, pageSize) ==
    SubSeq(list, (page - 1) * pageSize + 1, min(Len(list), page * pageSize))

\* paginatedList, its for loop from the query of one page on: [elements, next]
RECURSIVE paginatedLoop(_, _, _, _, _, _, _)
paginatedLoop(list, start, max, listPageSize, page, first, elements) ==
    LET resp == BlockListVolumes(list, page, listPageSize)
        respCount == Len(resp)
        appended == elements \o
                    IF max = 0 THEN SubSeq(resp, first + 1, respCount)
                    ELSE SubSeq(resp, first + 1,
                                min(respCount, first + max - Len(elements)))
    IN  IF first >= respCount THEN [elements |-> elements, next |-> ""]
        ELSE IF max # 0 /\ Len(appended) >= max
        THEN [elements |-> appended,
              next |-> IF respCount = listPageSize THEN Itoa(start + max) ELSE ""]
        ELSE IF respCount # listPageSize THEN [elements |-> appended, next |-> ""]
        ELSE paginatedLoop(list, start, max, listPageSize, page + 1, 0, appended)

\* paginatedList over the list the Block Service holds: [elements, next]
paginatedList(list, start, max) ==
    LET listPageSize == IF max < maxPageSize /\ max # 0 THEN max ELSE maxPageSize
    IN  paginatedLoop(list, start, max, listPageSize,
                      (start \div listPageSize) + 1, start % listPageSize, <<>>)

\* the volumes of the Block Service in the order it lists them
listedVolumes(vols) ==
    [k \in 1..Cardinality(DOMAIN vols) |-> vols[NewUUID("vol-", k)]]

\* Scaleway.ListVolumes: [err, volumes, next]; failed tells whether the Block
\* Service answers with an error
ScalewayListVolumes(vols, start, max, failed) ==
    IF failed THEN [err |-> OtherError, volumes |-> <<>>, next |-> ""]
    ELSE LET r == paginatedList(listedVolumes(vols), start, max)
         IN  [err |-> NoError, volumes |-> r.elements, next |-> r.next]

\* parseStartingToken: [err, value] of a starting token
parseStartingToken(token) ==
    IF token = "" THEN [err |-> NoError, value |-> 0] ELSE ParseUint(token)

\* the request of t follows the token of the call t has just returned from
followsToken(t, req) ==
    /\ tasks[t].kind = "ListVolumes" /\ tasks[t].pc = "done"
    /\ tasks[t].resp.code = OK /\ tasks[t].resp.NextToken # ""
    /\ req.StartingToken = tasks[t].resp.NextToken
    /\ req.MaxEntries = tasks[t].req.MaxEntries

\* ListVolumes, d.scaleway the SDK-backed client
ListVolumes(t, req) ==
    /\ ~InFlight(tasks[t])
    /\ \E failed \in BOOLEAN :
         LET start == parseStartingToken(req.StartingToken)
             r == ScalewayListVolumes(volumes, start.value, req.MaxEntries, failed)
             volumesEntries == [i \in DOMAIN r.volumes |->
                                  [Volume |-> csiVolume(r.volumes[i]),
                                   PublishedNodeIds |-> publishedNodeIDs(r.volumes[i])]]
             called == start.err = NoError /\ req.MaxEntries >= 0
             listed == called /\ r.err = NoError
             tk == [Start(t, "ListVolumes", req) EXCEPT
                       !.calls = IF called THEN <<"ListVolumes">> ELSE <<>>,
                       !.from = IF followsToken(t, req) THEN tasks[t].from ELSE start.value,
                       !.listed = (IF followsToken(t, req) THEN tasks[t].listed ELSE <<>>)
                                  \o (IF listed THEN volumesEntries ELSE <<>>)]
         IN  Return(t, tk,
                 IF start.err # NoError THEN ErrorResponse(Aborted)
                 ELSE IF req.MaxEntries < 0 THEN ErrorResponse(InvalidArgument)
                 ELSE IF r.err # NoError THEN ErrorResponse(Internal)
                 ELSE [EmptyResponse EXCEPT !.Entries = volumesEntries,
                                            !.NextToken = r.next],
                 TRUE)
    /\ UNCHANGED <<host, firstPublish, volumes, snapshots, servers, nextVolume, nextSnapshot>>

\* ------------------------------------------------------------------------
\* DeleteSnapshot
\* ------------------------------------------------------------------------
\* DeleteSnapshot is called: DeleteSnapshot up to d.scaleway.DeleteSnapshot
BeginDeleteSnapshot(t, req) ==
    /\ ~InFlight(tasks[t])
    /\ LET v == ExtractIDAndZone(req.SnapshotId)
           tk == [Start(t, "DeleteSnapshot", req) EXCEPT
                     !.pc = "DeleteSnapshot", !.snapshotID = v.id, !.volumeZone = v.zone]
       IN  ReturnOrContinue(t, tk,
               IF v.err # NoError THEN ErrorResponse(InvalidArgument) ELSE Nil, TRUE)
    /\ UNCHANGED <<host, firstPublish, volumes, snapshots, servers, nextVolume, nextSnapshot>>

\* DeleteSnapshot from d.scaleway.DeleteSnapshot on
DeleteSnapshotCall(t) ==
    /\ tasks[t].kind = "DeleteSnapshot" /\ tasks[t].pc = "DeleteSnapshot"
    /\ LET tk == [Called(tasks[t], "DeleteSnapshot") EXCEPT
                     !.before = FakeGetSnapshot(snapshots, tasks[t].snapshotID,
                                                tasks[t].volumeZone).snapshot]
           r == FakeDeleteSnapshot(snapshots, tk.snapshotID, tk.volumeZone)
       IN  /\ snapshots' = r.snapshots
           /\ Proceed(t, tk, deleteResponse(r.err))
    /\ UNCHANGED <<host, firstPublish, volumes, servers, nextVolume, nextSnapshot>>

\* ------------------------------------------------------------------------
\* CreateSnapshot, d.scaleway the SDK-backed client
\* ------------------------------------------------------------------------
\* getOrCreateSnapshot from GetSnapshotByName up to CreateSnapshot or WaitForSnapshot
ClientSnapshotGetSnapshotByName(t) ==
    /\ tasks[t].kind = "CreateSnapshot" /\ tasks[t].pc = "GetSnapshotByName"
    /\ \E r \in ScalewayGetSnapshotByName(snapshots, tasks[t].name, tasks[t].volumeID,
                                          tasks[t].volumeZone) :
         LET tk == [Called(tasks[t], "GetSnapshotByName") EXCEPT
                       !.pc = IF r.snapshot = Nil THEN "CreateSnapshot" ELSE "WaitForSnapshot",
                       !.snapshot = r.snapshot]
         IN  Proceed(t, tk,
                 IF r.err # NoError /\ r.err # ErrSnapshotNotFound
                 THEN ErrorResponse(codeFromScalewayError(r.err))
                 ELSE Nil)
    /\ UNCHANGED <<host, firstPublish, volumes, snapshots, servers, nextVolume, nextSnapshot>>

\* getOrCreateSnapshot from CreateSnapshot up to WaitForSnapshot
ClientSnapshotCreateSnapshot(t) ==
    /\ tasks[t].kind = "CreateSnapshot" /\ tasks[t].pc = "CreateSnapshot"
    /\ nextSnapshot <= MaxSnapshots
    /\ \E r \in ScalewayCreateSnapshot(volumes, snapshots, NewUUID("snap-", nextSnapshot),
                                       tasks[t].name, tasks[t].volumeID,
                                       tasks[t].volumeZone) :
         LET tk == [Called(tasks[t], "CreateSnapshot") EXCEPT
                       !.pc = "WaitForSnapshot", !.snapshot = r.snapshot]
         IN  /\ snapshots' = r.snapshots
             /\ nextSnapshot' = IF r.err = NoError THEN nextSnapshot + 1 ELSE nextSnapshot
             /\ Proceed(t, tk,
                    IF r.err # NoError THEN ErrorResponse(codeFromScalewayError(r.err))
                    ELSE Nil)
    /\ UNCHANGED <<host, firstPublish, volumes, servers, nextVolume>>

\* getOrCreateSnapshot from WaitForSnapshot on, and the end of CreateSnapshot
ClientSnapshotWaitForSnapshot(t) ==
    /\ tasks[t].kind = "CreateSnapshot" /\ tasks[t].pc = "WaitForSnapshot"
    /\ \E r \in ScalewayWaitForSnapshot(snapshots, tasks[t].snapshot.ID,
                                        tasks[t].volumeZone) :
         LET tk == [Called(tasks[t], "WaitForSnapshot") EXCEPT !.snapshot = r.snapshot]
         IN  /\ snapshots' = r.snapshots
             /\ Proceed(t, tk, createSnapshotResponse(r.err, r.snapshot))
    /\ UNCHANGED <<host, firstPublish, volumes, servers, nextVolume, nextSnapshot>>

\* ------------------------------------------------------------------------
\* Requests
\* ------------------------------------------------------------------------
\* one gigabyte, the smallest size of a volume
GB == MinVolumeSize

MountCapability == [mode |-> "SINGLE_NODE_WRITER", block |-> FALSE, mount |-> TRUE]
BlockCapability == [mode |-> "SINGLE_NODE_WRITER", block |-> TRUE, mount |-> FALSE]
MultiNodeCapability == [mode |-> "MULTI_NODE_MULTI_WRITER", block |-> FALSE, mount |-> TRUE]

\* a capacity range with required_bytes only
Required(n) == [required |-> n, limit |-> 0]

\* a content source that names a snapshot
FromSnapshot(id) == [type |-> "snapshot", snapshot |-> [SnapshotId |-> id]]

\* a topology requirement
Segment(zone) == [key |-> ZoneTopologyKey, value |-> zone]
Topology(requisite, preferred) ==
    [Requisite |-> [i \in DOMAIN requisite |-> Segment(requisite[i])],
     Preferred |-> [i \in DOMAIN preferred |-> Segment(preferred[i])]]

CreateVolumeRequest(name, capacity, source, topology) ==
    [EmptyRequest EXCEPT !.Name = name, !.VolumeCapabilities = <<MountCapability>>,
                         !.CapacityRange = capacity, !.VolumeContentSource = source,
                         !.AccessibilityRequirements = topology]

DeleteVolumeRequest(volumeId) == [EmptyRequest EXCEPT !.VolumeId = volumeId]

PublishRequest(volumeId, nodeId, capability) ==
    [EmptyRequest EXCEPT !.VolumeId = volumeId, !.NodeId = nodeId,
                         !.VolumeCapability = capability]

UnpublishRequest(volumeId, nodeId) ==
    [EmptyRequest EXCEPT !.VolumeId = volumeId, !.NodeId = nodeId]

ExpandRequest(volumeId, capacity, capability) ==
    [EmptyRequest EXCEPT !.VolumeId = volumeId, !.CapacityRange = capacity,
                         !.VolumeCapability = capability]

DeleteSnapshotRequest(snapshotId) == [EmptyRequest EXCEPT !.SnapshotId = snapshotId]

CreateSnapshotRequest(sourceVolumeId, name) ==
    [EmptyRequest EXCEPT !.SourceVolumeId = sourceVolumeId, !.Name = name]

\* ------------------------------------------------------------------------
\* Provisioning, one RPC at a time: CreateVolume with every kind of argument,
\* CreateSnapshot and DeleteVolume
\* ------------------------------------------------------------------------
ProvisionCreateRequests ==
    {CreateVolumeRequest(name, capacity, source, Nil) :
        name \in {"foo", "bar"}, capacity \in {Nil, Required(2 * GB)},
        source \in {Nil, FromSnapshot(<<ZoneFrPar1, "snap-1">>)}}
    \cup {CreateVolumeRequest("foo", Nil, Nil, topology) :
            topology \in {Topology(<<ZoneFrPar2>>, <<>>),
                          Topology(<<ZoneFrPar1, ZoneFrPar2>>, <<>>),
                          Topology(<<ZoneFrPar1, ZoneFrPar2>>, <<ZoneFrPar2>>)}}
    \cup {CreateVolumeRequest("bar", Nil, FromSnapshot(<<"snap-1">>),
                              Topology(<<ZoneFrPar1, ZoneFrPar2>>, <<>>)),
          CreateVolumeRequest("bar", Nil, FromSnapshot(<<ZoneFrPar1, "snap-1">>),
                              Topology(<<>>, <<ZoneFrPar2>>)),
          CreateVolumeRequest("bar", Nil, FromSnapshot(<<ZoneFrPar1, "snap-1">>),
                              Topology(<<ZoneFrPar1, ZoneFrPar2>>, <<ZoneFrPar1>>)),
          CreateVolumeRequest("", Nil, Nil, Nil),
          CreateVolumeRequest("foo", [required |-> 2 * GB, limit |-> GB], Nil, Nil),
          CreateVolumeRequest("foo", Nil, [type |-> "volume", snapshot |-> Nil], Nil),
          [CreateVolumeRequest("foo", Nil, Nil, Nil) EXCEPT !.VolumeCapabilities = <<>>],
          [CreateVolumeRequest("foo", Nil, Nil, Nil) EXCEPT
              !.VolumeCapabilities = <<MultiNodeCapability>>],
          [CreateVolumeRequest("foo", Nil, Nil, Nil) EXCEPT
              !.Parameters = [encrypted |-> "true"]],
          [CreateVolumeRequest("foo", Nil, Nil, Nil) EXCEPT
              !.Parameters = [iops |-> "many"]]}

ProvisionSnapshotRequests ==
    {CreateSnapshotRequest(id, "snap") : id \in {<<"vol-1">>, <<ZoneFrPar1, "vol-2">>}}

ProvisionDeleteRequests ==
    {DeleteVolumeRequest(id) : id \in {<<"vol-1">>, <<ZoneFrPar1, "vol-2">>, <<"">>}}

ProvisionDeleteSnapshotRequests ==
    {DeleteSnapshotRequest(id) : id \in {<<"snap-1">>, <<ZoneFrPar1, "snap-1">>,
                                          <<ZoneFrPar2, "snap-1">>, <<"">>}}

Next ==
    \E t \in {1} :
        \/ \E req \in ProvisionCreateRequests : BeginCreateVolume(t, req)
        \/ StepGetVolumeByName(t)
        \/ StepCreateVolume(t)
        \/ \E req \in ProvisionSnapshotRequests : BeginCreateSnapshot(t, req)
        \/ SnapshotLock(t)
        \/ SnapshotGetSnapshotByName(t)
        \/ SnapshotCreateSnapshot(t)
        \/ SnapshotWaitForSnapshot(t)
        \/ \E req \in ProvisionDeleteRequests : BeginDeleteVolume(t, req)
        \/ DeleteVolumeCall(t)
        \/ \E req \in ProvisionDeleteSnapshotRequests : BeginDeleteSnapshot(t, req)
        \/ DeleteSnapshotCall(t)

Spec == Init /\ [][Next]_vars

\* ------------------------------------------------------------------------
\* CreateVolume and DeleteVolume on concurrent goroutines
\* ------------------------------------------------------------------------
RaceCreateRequests ==
    {CreateVolumeRequest("foo", capacity, Nil, Nil) : capacity \in {Nil, Required(2 * GB)}}

RaceDeleteRequests == {DeleteVolumeRequest(<<id>>) : id \in VolumeUUIDs}

RaceNext ==
    \E t \in Tasks :
        \/ \E req \in RaceCreateRequests : BeginCreateVolume(t, req)
        \/ StepGetVolumeByName(t)
        \/ StepCreateVolume(t)
        \/ \E req \in RaceDeleteRequests : BeginDeleteVolume(t, req)
        \/ DeleteVolumeCall(t)

RaceSpec == Init /\ [][RaceNext]_vars

\* ------------------------------------------------------------------------
\* Every controller RPC that takes a volume ID, on concurrent goroutines and
\* on one volume, named with or without its zone
\* ------------------------------------------------------------------------
\* the container orchestrator provisions one volume, once
ProvisionOnce(t, name) ==
    /\ nextVolume = 1
    /\ \A u \in Tasks : tasks[u].kind # "CreateVolume"
    /\ BeginCreateVolume(t, CreateVolumeRequest(name, Nil, Nil, Nil))

LockNext ==
    \E t \in Tasks :
        \/ ProvisionOnce(t, "foo")
        \/ StepGetVolumeByName(t)
        \/ StepCreateVolume(t)
        \/ BeginDeleteVolume(t, DeleteVolumeRequest(<<"vol-1">>))
        \/ DeleteVolumeCall(t)
        \/ BeginControllerPublishVolume(t,
               PublishRequest(<<ZoneFrPar1, "vol-1">>, <<"srv-2">>, MountCapability))
        \/ PublishLock(t)
        \/ PublishGetVolume(t)
        \/ PublishGetServer(t)
        \/ PublishAttachVolume(t)
        \/ BeginControllerUnpublishVolume(t, UnpublishRequest(<<"vol-1">>, <<"srv-2">>))
        \/ UnpublishLock(t)
        \/ UnpublishGetVolume(t)
        \/ UnpublishGetServer(t)
        \/ UnpublishDetachVolume(t)
        \/ BeginControllerExpandVolume(t,
               ExpandRequest(<<ZoneFrPar1, "vol-1">>, Required(2 * GB), Nil))
        \/ ExpandLock(t)
        \/ ExpandGetVolume(t)
        \/ ExpandResizeVolume(t)
        \/ BeginCreateSnapshot(t, CreateSnapshotRequest(<<"vol-1">>, "snap"))
        \/ SnapshotLock(t)
        \/ SnapshotGetSnapshotByName(t)
        \/ SnapshotCreateSnapshot(t)
        \/ SnapshotWaitForSnapshot(t)

LockSpec == Init /\ [][LockNext]_vars

\* ------------------------------------------------------------------------
\* Attaching and detaching one volume on concurrent goroutines
\* ------------------------------------------------------------------------
PublishNodeIds == {<<"srv-1">>, <<ZoneFrPar1, "srv-2">>}

PublishNext ==
    \E t \in Tasks :
        \/ ProvisionOnce(t, "foo")
        \/ StepGetVolumeByName(t)
        \/ StepCreateVolume(t)
        \/ \E node \in PublishNodeIds :
             BeginControllerPublishVolume(t, PublishRequest(<<"vol-1">>, node, MountCapability))
        \/ PublishLock(t)
        \/ PublishGetVolume(t)
        \/ PublishGetServer(t)
        \/ PublishAttachVolume(t)
        \/ \E node \in PublishNodeIds :
             BeginControllerUnpublishVolume(t, UnpublishRequest(<<"vol-1">>, node))
        \/ UnpublishLock(t)
        \/ UnpublishGetVolume(t)
        \/ UnpublishGetServer(t)
        \/ UnpublishDetachVolume(t)

PublishSpec == Init /\ [][PublishNext]_vars

\* ------------------------------------------------------------------------
\* Attaching, detaching and deleting, one RPC at a time: two volumes, a
\* server with one free slot, a server with many and a server that does not
\* exist
\* ------------------------------------------------------------------------
AttachVolumeIds ==
    {<<id>> : id \in VolumeUUIDs} \cup {<<ZoneFrPar1, "vol-1">>, <<ZoneFrPar2, "vol-1">>}

AttachNodeIds == {<<"srv-1">>, <<ZoneFrPar1, "srv-2">>, <<"srv-9">>}

AttachCapabilities == {MountCapability, BlockCapability, MultiNodeCapability, Nil}

AttachNext ==
    \E t \in {1} :
        \/ \E name \in {"foo", "bar"} :
             BeginCreateVolume(t, CreateVolumeRequest(name, Nil, Nil, Nil))
        \/ StepGetVolumeByName(t)
        \/ StepCreateVolume(t)
        \/ \E id \in AttachVolumeIds : BeginDeleteVolume(t, DeleteVolumeRequest(id))
        \/ DeleteVolumeCall(t)
        \/ \E id \in AttachVolumeIds, node \in AttachNodeIds, capability \in AttachCapabilities :
             BeginControllerPublishVolume(t, PublishRequest(id, node, capability))
        \/ PublishLock(t)
        \/ PublishGetVolume(t)
        \/ PublishGetServer(t)
        \/ PublishAttachVolume(t)
        \/ \E id \in AttachVolumeIds, node \in AttachNodeIds :
             BeginControllerUnpublishVolume(t, UnpublishRequest(id, node))
        \/ UnpublishLock(t)
        \/ UnpublishGetVolume(t)
        \/ UnpublishGetServer(t)
        \/ UnpublishDetachVolume(t)

AttachSpec == Init /\ [][AttachNext]_vars

\* ------------------------------------------------------------------------
\* ClientSpec: two goroutines delete volumes through the SDK-backed client;
\* the Block Service starts with any of a few contents
\* ------------------------------------------------------------------------
\* a volume the Block Service holds
ServiceVolume(id, zone, references) ==
    [ID |-> id, Name |-> "pvc-" \o id, Zone |-> zone,
     Status |-> IF references = <<>> THEN VolumeStatusAvailable ELSE VolumeStatusInUse,
     References |-> references, PerfIops |-> <<5000>>, ParentSnapshotID |-> <<>>,
     Size |-> GB]

ServiceContents ==
    {<<>>} \cup
    {MapPut(<<>>, "vol-1", ServiceVolume("vol-1", zone, references)) :
        zone \in Zones,
        references \in {<<>>, <<[ProductResourceType |-> InstanceServerProductResourceType,
                                 ProductResourceID |-> "srv-1"]>>}}

ClientInit ==
    /\ volumes \in ServiceContents
    /\ snapshots = <<>>
    /\ servers = InitialServers
    /\ nextVolume = 1
    /\ nextSnapshot = 1
    /\ locks = {}
    /\ tasks = [t \in Tasks |-> IdleTask]
    /\ firstPublish = <<>>
    /\ host = InitialHost

ClientDeleteRequests ==
    {DeleteVolumeRequest(id) :
        id \in {<<"vol-1">>, <<ZoneFrPar2, "vol-1">>, <<"pvc-foo">>, <<ZoneFrPar1, "pvc-foo">>,
                <<ZoneFrPar1, "">>, <<"">>}}

ClientNext ==
    \E t \in {1, 2} :
        \/ \E req \in ClientDeleteRequests : BeginDeleteVolume(t, req)
        \/ ClientDeleteVolumeCall(t)

ClientSpec == ClientInit /\ [][ClientNext]_vars

\* ------------------------------------------------------------------------
\* ExpandSpec: two goroutines create, expand and delete one volume
\* ------------------------------------------------------------------------
HalfGB == GB \div 2

ExpandCapacities ==
    {Nil, Required(HalfGB), Required(GB), Required(3 * HalfGB), Required(2 * GB)}

ExpandRequests ==
    {ExpandRequest(<<"vol-1">>, capacity, Nil) : capacity \in ExpandCapacities} \cup
    {ExpandRequest(<<"vol-1">>, Required(GB), BlockCapability),
     ExpandRequest(<<ZoneFrPar2, "vol-1">>, Required(2 * GB), BlockCapability)}

\* CreateVolume of one name, by one goroutine at a time
ProvisionSized(t, name, capacity) ==
    /\ \A u \in Tasks : tasks[u].kind # "CreateVolume"
    /\ BeginCreateVolume(t, CreateVolumeRequest(name, capacity, Nil, Nil))

ExpandNext ==
    \E t \in Tasks :
        \/ \E capacity \in {Nil, Required(3 * HalfGB)} : ProvisionSized(t, "foo", capacity)
        \/ StepGetVolumeByName(t)
        \/ StepCreateVolume(t)
        \/ \E req \in ExpandRequests : BeginControllerExpandVolume(t, req)
        \/ ExpandLock(t)
        \/ ExpandGetVolume(t)
        \/ ExpandResizeVolume(t)
        \/ BeginDeleteVolume(t, DeleteVolumeRequest(<<"vol-1">>))
        \/ DeleteVolumeCall(t)

ExpandSpec == Init /\ [][ExpandNext]_vars

\* ------------------------------------------------------------------------
\* NameSpec: one goroutine creates volumes of one name with several sizes
\* and topologies, and deletes them
\* ------------------------------------------------------------------------
NameCreateRequests ==
    {CreateVolumeRequest("foo", capacity, Nil, topology) :
        capacity \in {Nil, Required(2 * GB)},
        topology \in {Nil, Topology(<<ZoneFrPar2>>, <<>>),
                      Topology(<<ZoneFrPar1, ZoneFrPar2>>, <<>>),
                      Topology(<<ZoneFrPar1, ZoneFrPar2>>, <<ZoneFrPar2>>)}}

NameNext ==
    \E t \in {1} :
        \/ \E req \in NameCreateRequests : BeginCreateVolume(t, req)
        \/ StepGetVolumeByName(t)
        \/ StepCreateVolume(t)
        \/ \E id \in VolumeUUIDs : BeginDeleteVolume(t, DeleteVolumeRequest(<<id>>))
        \/ DeleteVolumeCall(t)

NameSpec == Init /\ [][NameNext]_vars

\* ------------------------------------------------------------------------
\* PageSpec: one goroutine lists the volumes of a Block Service that holds
\* a fixed list of them
\* ------------------------------------------------------------------------
ListedContents ==
    {[id \in {NewUUID("vol-", k) : k \in 1..n} |-> ServiceVolume(id, ZoneFrPar1, <<>>)] :
        n \in 0..MaxListed}

PageInit ==
    /\ volumes \in ListedContents
    /\ snapshots = <<>>
    /\ servers = InitialServers
    /\ nextVolume = 1
    /\ nextSnapshot = 1
    /\ locks = {}
    /\ tasks = [t \in Tasks |-> IdleTask]
    /\ firstPublish = <<>>
    /\ host = InitialHost

ListVolumesRequest(startingToken, maxEntries) ==
    [EmptyRequest EXCEPT !.StartingToken = startingToken, !.MaxEntries = maxEntries]

PageRequests ==
    {ListVolumesRequest(token, maxEntries) :
        token \in {"", "x"} \cup {Itoa(n) : n \in 0..(MaxListed + 1)},
        maxEntries \in -1..MaxListed}

PageNext ==
    \E t \in {1} : \E req \in PageRequests : ListVolumes(t, req)

PageSpec == PageInit /\ [][PageNext]_vars

\* ------------------------------------------------------------------------
\* SnapshotSpec: one goroutine creates snapshots through the SDK-backed
\* client; the Block Service holds a volume and decides how a snapshot ends
\* ------------------------------------------------------------------------
SnapshotInit ==
    /\ volumes = MapPut(<<>>, "vol-1", ServiceVolume("vol-1", ZoneFrPar1, <<>>))
    /\ snapshots = <<>>
    /\ servers = InitialServers
    /\ nextVolume = 1
    /\ nextSnapshot = 1
    /\ locks = {}
    /\ tasks = [t \in Tasks |-> IdleTask]
    /\ firstPublish = <<>>
    /\ host = InitialHost

SnapshotRequests ==
    {CreateSnapshotRequest(id, name) :
        id \in {<<"vol-1">>, <<ZoneFrPar2, "vol-1">>, <<"vol-2">>, <<"pvc-foo">>, <<"">>},
        name \in {"snap", "other", ""}}

SnapshotNext ==
    \E t \in {1} :
        \/ \E req \in SnapshotRequests : BeginCreateSnapshot(t, req)
        \/ SnapshotLock(t)
        \/ ClientSnapshotGetSnapshotByName(t)
        \/ ClientSnapshotCreateSnapshot(t)
        \/ ClientSnapshotWaitForSnapshot(t)

SnapshotSpec == SnapshotInit /\ [][SnapshotNext]_vars

\* ------------------------------------------------------------------------
\* TwoVolumeSpec: two goroutines publish and expand two volumes
\* ------------------------------------------------------------------------
\* CreateVolume while the client can hold one more volume, by one goroutine
\* at a time
ProvisionBoth(t, name) ==
    /\ nextVolume <= MaxVolumes
    /\ \A u \in Tasks : tasks[u].kind # "CreateVolume"
    /\ BeginCreateVolume(t, CreateVolumeRequest(name, Nil, Nil, Nil))

\* a step of a ControllerPublishVolume or ControllerExpandVolume of t after
\* the call began
LockedStep(t) ==
    \/ PublishLock(t)
    \/ PublishGetVolume(t)
    \/ PublishGetServer(t)
    \/ PublishAttachVolume(t)
    \/ ExpandLock(t)
    \/ ExpandGetVolume(t)
    \/ ExpandResizeVolume(t)

TwoVolumeNext ==
    \E t \in Tasks :
        \/ \E name \in {"foo", "bar"} : ProvisionBoth(t, name)
        \/ StepGetVolumeByName(t)
        \/ StepCreateVolume(t)
        \/ \E id \in VolumeUUIDs :
             BeginControllerPublishVolume(t,
                 PublishRequest(<<id>>, <<"srv-2">>, MountCapability))
        \/ \E id \in VolumeUUIDs :
             BeginControllerExpandVolume(t, ExpandRequest(<<id>>, Required(2 * GB), Nil))
        \/ LockedStep(t)

TwoVolumeSpec == Init /\ [][TwoVolumeNext]_vars

\* ------------------------------------------------------------------------
\* Properties
\* ------------------------------------------------------------------------
\* goroutine t has returned from an RPC of that kind
Returned(t, kind) == tasks[t].kind = kind /\ tasks[t].pc = "done"

\* the handler made that cloud client call
HasCalled(tk, call) == call \in Range(tk.calls)

\* the server a volume is attached to, as the handler sees it
AttachedTo(volume) == publishedNodeIDs(volume)

\* C1: two successive CreateVolume calls with identical arguments, the first
\* of which succeeded, both succeed and return the same volume_id and the
\* same capacity_bytes
C1_CreateVolumeTwice ==
    \A t \in Tasks :
        (Returned(t, "CreateVolume") /\ tasks[t].prev # Nil /\ tasks[t].prev.code = OK)
        => /\ tasks[t].resp.code = OK
           /\ tasks[t].resp.Volume.VolumeId = tasks[t].prev.Volume.VolumeId
           /\ tasks[t].resp.Volume.CapacityBytes = tasks[t].prev.Volume.CapacityBytes

\* C2: two CreateVolume calls with the same name and the same size, the
\* second started before the first returned, that both succeed carry the
\* same volume_id
C2_ConcurrentCreateVolume ==
    \A t, u \in Tasks :
        (/\ t # u
         /\ Returned(t, "CreateVolume") /\ Returned(u, "CreateVolume")
         /\ u \in tasks[t].racing
         /\ tasks[t].name = tasks[u].name /\ tasks[t].size = tasks[u].size
         /\ tasks[t].resp.code = OK /\ tasks[u].resp.code = OK)
        => tasks[t].resp.Volume.VolumeId = tasks[u].resp.Volume.VolumeId

\* the RPCs that lock their volume
LockingKinds ==
    {"ControllerPublishVolume", "ControllerUnpublishVolume",
     "ControllerExpandVolume", "CreateSnapshot"}

\* the handler is between its Lock(volumeID) and its Unlock(volumeID)
Holding(tk) == tk.kind \in LockingKinds /\ tk.locked

\* C3: for any volume ID, at most one ControllerPublishVolume,
\* ControllerUnpublishVolume, ControllerExpandVolume or CreateSnapshot is
\* between its Lock(volumeID) and its Unlock(volumeID)
C3_MutualExclusion ==
    \A t, u \in Tasks :
        (t # u /\ Holding(tasks[t]) /\ Holding(tasks[u]))
        => tasks[t].volumeID # tasks[u].volumeID

\* C3, its case: an RPC holds the lock of a volume while another RPC on the
\* same volume waits for it
C3_Witness ==
    \E t, u \in Tasks :
        /\ t # u
        /\ Holding(tasks[t])
        /\ tasks[u].kind \in LockingKinds /\ tasks[u].pc = "Lock"
        /\ tasks[u].kind # tasks[t].kind
        /\ tasks[u].volumeID = tasks[t].volumeID

\* the handler has made a cloud client call and goes on to make another
BetweenCalls(tk) ==
    /\ InFlight(tk)
    /\ tk.calls # <<>>
    /\ tk.pc = "AttachVolume" => MaxVolumesPerNode \notin lenServerVolumes(tk.server)

\* goroutine u makes a cloud client call in this step
MakesCall(u) == Len(tasks'[u].calls) > Len(tasks[u].calls)

\* no RPC of kinds makes a cloud client call while another RPC of kinds on
\* the same volume ID is between two of its own
NoInterleaving(kinds) ==
    \A t, u \in Tasks :
        (/\ t # u
         /\ tasks[t].kind \in kinds /\ tasks[u].kind \in kinds
         /\ tasks[t].volumeID = tasks[u].volumeID
         /\ BetweenCalls(tasks[t]))
        => ~MakesCall(u)

\* C4 as stated: no two controller RPCs on the same volume ID, DeleteVolume
\* included, interleave their cloud client calls
C4_AllSerialized == [][NoInterleaving(LockingKinds \cup {"DeleteVolume"})]_vars

\* C4, amended: no two of ControllerPublishVolume, ControllerUnpublishVolume,
\* ControllerExpandVolume and CreateSnapshot on the same volume ID interleave
\* their cloud client calls (DeleteVolume takes no lock)
C4_LockingSerialized == [][NoInterleaving(LockingKinds)]_vars

\* C4, its case: an RPC is between two cloud client calls, under the lock,
\* while another RPC on the same volume has made none and waits
C4_Witness ==
    \E t, u \in Tasks :
        /\ t # u
        /\ Holding(tasks[t]) /\ BetweenCalls(tasks[t]) /\ Len(tasks[t].calls) >= 2
        /\ tasks[u].kind \in LockingKinds /\ tasks[u].pc = "Lock"
        /\ tasks[u].calls = <<>>
        /\ tasks[u].volumeID = tasks[t].volumeID

\* the instance_server references of a volume
serverReferences(volume) ==
    {i \in DOMAIN volume.References :
        volume.References[i].ProductResourceType = InstanceServerProductResourceType}

\* the servers that hold a volume in a slot
holders(volumeID) ==
    {id \in DOMAIN servers : volumeID \in Range(servers[id].Volumes)}

\* C5: under every interleaving of ControllerPublishVolume and
\* ControllerUnpublishVolume, each volume has at most one instance_server
\* reference and is in a slot of at most one server
C5_AtMostOneServer ==
    \A id \in DOMAIN volumes :
        /\ Cardinality(serverReferences(volumes[id])) <= 1
        /\ Cardinality(holders(id)) <= 1

\* C5, its case: a volume is attached by one goroutine while the other
\* publishes it to another server, and is refused
C5_Witness ==
    \E t, u \in Tasks :
        /\ t # u
        /\ Returned(t, "ControllerPublishVolume") /\ HasCalled(tasks[t], "AttachVolume")
        /\ tasks[t].resp.code = OK
        /\ tasks[u].kind = "ControllerPublishVolume" /\ u \in tasks[t].racing
        /\ tasks[u].volumeID = tasks[t].volumeID /\ tasks[u].nodeID # tasks[t].nodeID
        /\ tasks[u].pc = "done" /\ tasks[u].resp.code = FailedPrecondition
        /\ Cardinality(serverReferences(volumes[tasks[t].volumeID])) = 1

\* ControllerPublishVolume returned after it fetched the volume and the server
Published(t) ==
    /\ Returned(t, "ControllerPublishVolume")
    /\ tasks[t].volumeResp # Nil
    /\ tasks[t].server # Nil

\* the zonal ID of the server the handler fetched
requestedServer(tk) == <<expandZonalID(tk.server.ID, tk.server.Zone)>>

\* C6: ControllerPublishVolume of a volume that is attached to the requested
\* server succeeds with the publish context of the publish that attached it,
\* and calls no AttachVolume
C6_PublishAgain ==
    \A t \in Tasks :
        (Published(t) /\ AttachedTo(tasks[t].volumeResp) = requestedServer(tasks[t]))
        => /\ tasks[t].resp.code = OK
           /\ ~HasCalled(tasks[t], "AttachVolume")
           /\ tasks[t].volumeID \in DOMAIN firstPublish
           /\ tasks[t].resp.PublishContext = firstPublish[tasks[t].volumeID]

\* C6, its case: a publish of a volume attached to the requested server returned
C6_Witness ==
    \E t \in Tasks :
        /\ Published(t)
        /\ AttachedTo(tasks[t].volumeResp) = requestedServer(tasks[t])
        /\ tasks[t].resp.PublishContext =
               [volumeName |-> "foo", volumeID |-> "vol-1", volumeZone |-> ZoneFrPar1]

C8_ServerFull ==
    \A t \in Tasks :
        (/\ Published(t)
         /\ AttachedTo(tasks[t].volumeResp) = <<>>
         /\ Cardinality(DOMAIN tasks[t].server.Volumes) = MaxVolumesPerNode)
        => /\ tasks[t].resp.code = ResourceExhausted
           /\ ~HasCalled(tasks[t], "AttachVolume")
           /\ stored(tasks[t].volumeID) = tasks[t].volumeResp
           /\ servers[tasks[t].server.ID] = tasks[t].server

\* C8, its case: a publish of an unattached volume to a full server returned
C8_Witness ==
    \E t \in Tasks :
        /\ Published(t)
        /\ AttachedTo(tasks[t].volumeResp) = <<>>
        /\ Cardinality(DOMAIN servers[tasks[t].server.ID].Volumes) = MaxVolumesPerNode
        /\ tasks[t].resp.code = ResourceExhausted

\* ControllerUnpublishVolume returned and found no volume
VolumeMissing(t) ==
    /\ Returned(t, "ControllerUnpublishVolume")
    /\ HasCalled(tasks[t], "GetVolume")
    /\ tasks[t].volumeResp = Nil

\* ControllerUnpublishVolume returned and found the volume attached to no server
NotAttached(t) ==
    /\ Returned(t, "ControllerUnpublishVolume")
    /\ tasks[t].volumeResp # Nil
    /\ AttachedTo(tasks[t].volumeResp) = <<>>

\* ControllerUnpublishVolume returned and found no server
ServerMissing(t) ==
    /\ Returned(t, "ControllerUnpublishVolume")
    /\ HasCalled(tasks[t], "GetServer")
    /\ tasks[t].server = Nil

\* C9: ControllerUnpublishVolume succeeds and calls no DetachVolume when the
\* volume is not attached, when the volume does not exist and when the server
\* does not exist
C9_UnpublishNothing ==
    \A t \in Tasks :
        (VolumeMissing(t) \/ NotAttached(t) \/ ServerMissing(t))
        => /\ tasks[t].resp.code = OK
           /\ ~HasCalled(tasks[t], "DetachVolume")
           /\ tasks[t].volumeResp # Nil => stored(tasks[t].volumeID) = tasks[t].volumeResp

\* C9, its case: an unpublish of an attached volume from a server that does
\* not exist returned
C9_Witness ==
    \E t \in Tasks :
        /\ ServerMissing(t)
        /\ AttachedTo(tasks[t].volumeResp) # <<>>
        /\ tasks[t].nodeID = "srv-9"
        /\ tasks[t].resp.code = OK

\* C10: DeleteVolume of a volume that has a server reference returns
\* FailedPrecondition and the volume still exists
C10_DeleteAttached ==
    \A t \in Tasks :
        (/\ Returned(t, "DeleteVolume")
         /\ tasks[t].before # Nil
         /\ tasks[t].before.Zone = zoneOrDefault(tasks[t].volumeZone)
         /\ AttachedTo(tasks[t].before) # <<>>)
        => /\ tasks[t].resp.code = FailedPrecondition
           /\ tasks[t].volumeID \in DOMAIN volumes

\* DeleteVolume returned and the Fake held no volume of that ID in that zone
DeletedMissingVolume(t) ==
    /\ Returned(t, "DeleteVolume")
    /\ HasCalled(tasks[t], "DeleteVolume")
    /\ \/ tasks[t].before = Nil
       \/ tasks[t].before.Zone # zoneOrDefault(tasks[t].volumeZone)

\* DeleteSnapshot returned and the Fake held no snapshot of that ID in that zone
DeletedMissingSnapshot(t) ==
    /\ Returned(t, "DeleteSnapshot")
    /\ HasCalled(tasks[t], "DeleteSnapshot")
    /\ tasks[t].before = Nil

\* C11: DeleteVolume and DeleteSnapshot succeed when the resource does not
\* exist, and a delete repeated after one that succeeded succeeds too
C11_DeleteMissing ==
    \A t \in Tasks :
        /\ (DeletedMissingVolume(t) \/ DeletedMissingSnapshot(t)) => tasks[t].resp.code = OK
        /\ (/\ tasks[t].kind \in {"DeleteVolume", "DeleteSnapshot"}
            /\ tasks[t].pc = "done"
            /\ tasks[t].prev # Nil /\ tasks[t].prev.code = OK)
           => tasks[t].resp.code = OK

\* C11, its case: a DeleteSnapshot repeated after one that deleted the
\* snapshot returned
C11_Witness ==
    \E t \in Tasks :
        /\ DeletedMissingSnapshot(t)
        /\ tasks[t].prev # Nil /\ tasks[t].prev.code = OK
        /\ nextSnapshot > 1 /\ snapshots = <<>>
        /\ tasks[t].resp.code = OK

\* C12: DeleteVolume of an ID whose UUID part is not a well-formed UUID
\* returns success and makes no call of the Block Service
C12_DeleteNotUUID ==
    \A t \in Tasks :
        (/\ Returned(t, "DeleteVolume")
         /\ HasCalled(tasks[t], "DeleteVolume")
         /\ tasks[t].volumeID \notin WellFormedUUIDs)
        => /\ tasks[t].resp.code = OK
           /\ ~HasCalled(tasks[t], "block.DeleteVolume")

\* C12, its case: the delete of "pvc-foo" returned while the Block Service
\* holds a volume, and a delete of a well-formed ID made its call
C12_Witness ==
    /\ tasks[1].req.VolumeId = <<"pvc-foo">>
    /\ Returned(1, "DeleteVolume")
    /\ tasks[1].calls = <<"DeleteVolume">>
    /\ tasks[1].resp.code = OK
    /\ volumes # <<>>
    /\ HasCalled(tasks[2], "block.DeleteVolume")

\* ControllerExpandVolume returned, the volume was found and the capacity
\* range gave a size that is at most the size of the volume
ExpandedToNoMore(t) ==
    /\ Returned(t, "ControllerExpandVolume")
    /\ HasCalled(tasks[t], "GetVolume")
    /\ tasks[t].volumeResp # Nil
    /\ getVolumeRequestCapacity(tasks[t].req.CapacityRange).err = NoError
    /\ getVolumeRequestCapacity(tasks[t].req.CapacityRange).size <= tasks[t].volumeResp.Size

\* C13: ControllerExpandVolume to a size that is at most the current size of
\* the volume makes no resize call and returns the current size as
\* capacity_bytes
C13_ExpandNoOp ==
    \A t \in Tasks :
        ExpandedToNoMore(t)
        => /\ ~HasCalled(tasks[t], "ResizeVolume")
           /\ tasks[t].resp.code = OK
           /\ tasks[t].resp.CapacityBytes = tasks[t].volumeResp.Size
           /\ tasks[t].volumeID \in DOMAIN volumes
              => volumes[tasks[t].volumeID].Size >= tasks[t].volumeResp.Size

\* C13, its cases: an expand of a 1.5 GB volume to 1 GB, and an expand to the
\* very size of the volume
C13_Witness ==
    /\ ExpandedToNoMore(1) /\ ExpandedToNoMore(2)
    /\ tasks[1].volumeResp.Size = 3 * HalfGB /\ tasks[1].req.CapacityRange = Required(GB)
    /\ tasks[1].resp.CapacityBytes = 3 * HalfGB
    /\ tasks[2].volumeResp.Size = tasks[2].size

\* C14: no step of any controller RPC, in any interleaving, decreases the
\* size of a volume that exists
C14_NeverShrinks ==
    [][\A id \in DOMAIN volumes \cap DOMAIN volumes' :
           volumes'[id].Size >= volumes[id].Size]_vars

\* C14, its case: a volume of 1.5 GB was expanded to 2 GB and then an expand
\* to 1.5 GB returned
C14_Witness ==
    \E t \in Tasks :
        /\ Returned(t, "ControllerExpandVolume")
        /\ tasks[t].req.CapacityRange = Required(3 * HalfGB)
        /\ tasks[t].volumeResp # Nil /\ tasks[t].volumeResp.Size = 2 * GB
        /\ tasks[t].volumeID \in DOMAIN volumes
        /\ volumes[tasks[t].volumeID].Size = 2 * GB
        /\ \E u \in Tasks \ {t} : /\ Returned(u, "ControllerExpandVolume")
                                  /\ HasCalled(tasks[u], "ResizeVolume")
                                  /\ tasks[u].before # Nil /\ tasks[u].before.Size = 3 * HalfGB
                                  /\ tasks[u].resp.code = OK

\* the volumes the client held when the CreateVolume that goroutine t has
\* returned from was called, no other goroutine running
heldBefore(t) ==
    {id \in DOMAIN volumes :
        ~(/\ HasCalled(tasks[t], "CreateVolume")
          /\ tasks[t].resp.code = OK
          /\ tasks[t].resp.Volume.VolumeId = expandZonalID(id, volumes[id].Zone))}

\* the candidate zones of the call goroutine t has returned from
candidateZones(t) == {zoneOrDefault(tasks[t].zones[i]) : i \in DOMAIN tasks[t].zones}

\* the volumes of the requested name, in a candidate zone, of another size
\* than the requested one
differentSize(t) ==
    {id \in heldBefore(t) : /\ volumes[id].Name = tasks[t].name
                            /\ volumes[id].Zone \in candidateZones(t)
                            /\ volumes[id].Size # tasks[t].size}

\* position of a zone in the candidate zones
zoneIndex(t, zone) ==
    CHOOSE i \in DOMAIN tasks[t].zones :
        /\ zoneOrDefault(tasks[t].zones[i]) = zone
        /\ \A j \in 1..(i - 1) : zoneOrDefault(tasks[t].zones[j]) # zone

\* a candidate zone before that of volume id holds the name with the
\* requested size
foundEarlier(t, id) ==
    \E other \in heldBefore(t) :
        /\ volumes[other].Name = tasks[t].name
        /\ volumes[other].Size = tasks[t].size
        /\ volumes[other].Zone \in candidateZones(t)
        /\ zoneIndex(t, volumes[other].Zone) < zoneIndex(t, volumes[id].Zone)

\* C15 as stated: CreateVolume of a name that exists in a candidate zone
\* with another size returns AlreadyExists and creates no volume
C15_DifferentSize ==
    \A t \in {1} :
        (/\ Returned(t, "CreateVolume")
         /\ HasCalled(tasks[t], "GetVolumeByName")
         /\ differentSize(t) # {})
        => /\ tasks[t].resp.code = AlreadyExists
           /\ ~HasCalled(tasks[t], "CreateVolume")

\* C15: CreateVolume of a name that exists in a candidate zone with another
\* size returns AlreadyExists and creates no volume, unless a candidate
\* zone looked up before holds the name with the requested size: then that
\* volume is returned, and no volume is created either
C15_FirstMatchDecides ==
    \A t \in {1} :
        (/\ Returned(t, "CreateVolume")
         /\ HasCalled(tasks[t], "GetVolumeByName")
         /\ differentSize(t) # {})
        => /\ ~HasCalled(tasks[t], "CreateVolume")
           /\ IF \A id \in differentSize(t) : foundEarlier(t, id)
              THEN /\ tasks[t].resp.code = OK
                   /\ tasks[t].resp.Volume.CapacityBytes = tasks[t].size
              ELSE tasks[t].resp.code = AlreadyExists

\* C15, its cases: the name exists with another size in the only candidate
\* zone, and the call returned AlreadyExists with the volumes unchanged
C15_Witness ==
    /\ Returned(1, "CreateVolume")
    /\ tasks[1].calls = <<"GetVolumeByName">>
    /\ tasks[1].size = 2 * GB
    /\ differentSize(1) # {}
    /\ tasks[1].resp.code = AlreadyExists
    /\ Cardinality(DOMAIN volumes) = 1

\* the IDs of the entries of a list of ListVolumes entries
entryIds(entries) == [i \in DOMAIN entries |-> entries[i].Volume.VolumeId]

\* the IDs of the volumes the Block Service lists from index start on
idsFrom(start) ==
    LET list == listedVolumes(volumes)
    IN  [i \in 1..(Len(list) - start) |-> csiVolume(list[start + i]).VolumeId]

\* goroutine t has returned from the last ListVolumes of a chain of calls
\* that began with (start, max), max > 0 and start + max <= n, and followed
\* the returned tokens
ChainEnded(t) ==
    /\ Returned(t, "ListVolumes")
    /\ tasks[t].resp.code = OK
    /\ tasks[t].resp.NextToken = ""
    /\ tasks[t].req.MaxEntries > 0
    /\ tasks[t].from + tasks[t].req.MaxEntries <= Cardinality(DOMAIN volumes)

\* C16: for a fixed list L of length n and every start and max > 0 with
\* start + max <= n, the calls that follow the returned tokens from
\* (start, max) on yield, concatenated, exactly L[start:] when the empty
\* token comes, and every token before is further in the list
C16_Pagination ==
    \A t \in {1} :
        /\ ChainEnded(t) => entryIds(tasks[t].listed) = idsFrom(tasks[t].from)
        /\ (/\ Returned(t, "ListVolumes") /\ tasks[t].resp.code = OK
            /\ tasks[t].resp.NextToken # "")
           => /\ parseStartingToken(tasks[t].resp.NextToken).value
                    > parseStartingToken(tasks[t].req.StartingToken).value
              /\ parseStartingToken(tasks[t].resp.NextToken).value
                    <= Cardinality(DOMAIN volumes)

\* C17: a CreateSnapshot called again with the same name and the same
\* source volume returns the snapshot the call before returned, and creates
\* no snapshot
C17_CreateSnapshotTwice ==
    \A t \in Tasks :
        (Returned(t, "CreateSnapshot") /\ tasks[t].prev # Nil /\ tasks[t].prev.code = OK)
        => /\ tasks[t].resp.code = OK
           /\ tasks[t].resp.Snapshot.SnapshotId = tasks[t].prev.Snapshot.SnapshotId
           /\ ~HasCalled(tasks[t], "CreateSnapshot")
           /\ Cardinality({id \in DOMAIN snapshots :
                              /\ snapshots[id].Name = tasks[t].name
                              /\ snapshots[id].ParentVolume.ID = tasks[t].volumeID}) = 1

\* C17, its case: the second CreateSnapshot of a name and a volume returned
\* while the client could have created one more snapshot
C17_Witness ==
    \E t \in Tasks :
        /\ Returned(t, "CreateSnapshot")
        /\ tasks[t].prev # Nil /\ tasks[t].prev.code = OK
        /\ tasks[t].calls = <<"GetSnapshotByName", "WaitForSnapshot">>
        /\ tasks[t].resp.code = OK
        /\ nextSnapshot <= MaxSnapshots

\* C18: CreateSnapshot returns success only if the snapshot it waited for
\* is available or in_use after the wait; with any other status it returns
\* an error
C18_SnapshotStatus ==
    \A t \in Tasks :
        Returned(t, "CreateSnapshot")
        => /\ tasks[t].resp.code = OK
              => /\ HasCalled(tasks[t], "WaitForSnapshot")
                 /\ tasks[t].snapshot # Nil
                 /\ tasks[t].snapshot.Status \in {SnapshotStatusAvailable, SnapshotStatusInUse}
           /\ (/\ HasCalled(tasks[t], "WaitForSnapshot")
               /\ tasks[t].snapshot # Nil
               /\ tasks[t].snapshot.Status
                      \notin {SnapshotStatusAvailable, SnapshotStatusInUse})
              => tasks[t].resp.code = Internal

\* C18, its case: the snapshot CreateSnapshot created ended in status error
\* and the call returned Internal
C18_Witness ==
    \E t \in Tasks :
        /\ Returned(t, "CreateSnapshot")
        /\ tasks[t].calls = <<"GetSnapshotByName", "CreateSnapshot", "WaitForSnapshot">>
        /\ tasks[t].snapshot # Nil
        /\ tasks[t].snapshot.Status = SnapshotStatusError
        /\ tasks[t].resp.code = Internal

\* the zones a topology requirement names
topologyZones(accessibilityRequirements) ==
    {s.value : s \in Range(accessibilityRequirements.Requisite)
                     \cup Range(accessibilityRequirements.Preferred)}

\* the request is a CreateVolume from a snapshot of a zone that the topology
\* requirement of the request does not name, and is valid otherwise
IncompatibleSnapshotZone(req) ==
    /\ req.Name # ""
    /\ validateVolumeCapabilities(req.VolumeCapabilities, FALSE) = NoError
    /\ \A p \in parseCreateVolumeParams(req.Parameters) : p.err = NoError
    /\ getVolumeRequestCapacity(req.CapacityRange).err = NoError
    /\ req.VolumeContentSource # Nil
    /\ req.VolumeContentSource.type = "snapshot"
    /\ req.VolumeContentSource.snapshot # Nil
    /\ ExtractIDAndZone(req.VolumeContentSource.snapshot.SnapshotId).err = NoError
    /\ ExtractIDAndZone(req.VolumeContentSource.snapshot.SnapshotId).zone # NoZone
    /\ req.AccessibilityRequirements # Nil
    /\ ExtractIDAndZone(req.VolumeContentSource.snapshot.SnapshotId).zone
           \notin topologyZones(req.AccessibilityRequirements)

\* C19: CreateVolume from a snapshot whose zone is not compatible with the
\* accessibility requirements fails with ResourceExhausted
C19_SnapshotZone ==
    \A t \in Tasks :
        (Returned(t, "CreateVolume") /\ IncompatibleSnapshotZone(tasks[t].req))
        => tasks[t].resp.code = ResourceExhausted

\* goroutine t runs a ControllerPublishVolume or ControllerExpandVolume on
\* a volume whose lock no other goroutine holds
Unhindered(t) ==
    /\ tasks[t].kind \in {"ControllerPublishVolume", "ControllerExpandVolume"}
    /\ InFlight(tasks[t])
    /\ \A u \in Tasks \ {t} : Holding(tasks[u]) => tasks[u].volumeID # tasks[t].volumeID

\* C20: an RPC on volume B can take its next step, the Lock included,
\* whatever locks of other volumes other RPCs hold: there is no global lock
C20_NoGlobalLock ==
    \A t \in Tasks : Unhindered(t) => ENABLED LockedStep(t)

\* C20, its case: an RPC holds the lock of one volume, between two cloud
\* client calls, while an RPC on the other volume is about to lock
C20_Witness ==
    \E t, u \in Tasks :
        /\ Holding(tasks[u]) /\ BetweenCalls(tasks[u])
        /\ tasks[t].kind \in {"ControllerPublishVolume", "ControllerExpandVolume"}
        /\ tasks[t].pc = "Lock"
        /\ tasks[t].volumeID # tasks[u].volumeID
        /\ {tasks[t].volumeID, tasks[u].volumeID} = DOMAIN volumes


\* ------------------------------------------------------------------------
\* The SDK-backed client: AttachVolume and DetachVolume
\* ------------------------------------------------------------------------
ReferenceStatusAttaching == "attaching"
ReferenceStatusAttached == "attached"
ReferenceStatusDetaching == "detaching"
ReferenceStatusDetached == "detached"
VolumeStatusError == "error"

\* a reference of a volume to a server, as the Block Service reports it
serverReference(serverID, status) ==
    [ProductResourceType |-> InstanceServerProductResourceType,
     ProductResourceID |-> serverID, Status |-> status]

\* the servers once volumeID is in no slot of any of them
withoutVolume(srvs, volumeID) ==
    [id \in DOMAIN srvs |->
        [srvs[id] EXCEPT !.Volumes =
            [k \in {j \in DOMAIN srvs[id].Volumes : srvs[id].Volumes[j] # volumeID}
                |-> srvs[id].Volumes[k]]]]

\* s.block.GetVolume behind Scaleway.GetVolume: the set of [err, volume]
ScalewayGetVolume(vols, volumeID, zone) ==
    LET called == <<"block.GetVolume">> IN
    IF ~isValidUUID(volumeID)
    THEN {[err |-> ResourceNotFoundError, volume |-> Nil, api |-> <<>>]}
    ELSE {[err |-> OtherError, volume |-> Nil, api |-> called]} \cup
         IF volumeID \in DOMAIN vols /\ vols[volumeID].Zone = zoneOrDefault(zone)
         THEN {[err |-> NoError, volume |-> vols[volumeID], api |-> called]}
         ELSE {[err |-> ResourceNotFoundError, volume |-> Nil, api |-> called]}

\* s.instance.GetServer behind Scaleway.GetServer: the set of [err, server]
ScalewayGetServer(srvs, serverID, zone) ==
    LET called == <<"instance.GetServer">> IN
    IF ~isValidUUID(serverID)
    THEN {[err |-> ResourceNotFoundError, server |-> Nil, api |-> <<>>]}
    ELSE {[err |-> OtherError, server |-> Nil, api |-> called]} \cup
         IF serverID \in DOMAIN srvs /\ srvs[serverID].Zone = zoneOrDefault(zone)
         THEN {[err |-> NoError, server |-> srvs[serverID], api |-> called]}
         ELSE {[err |-> ResourceNotFoundError, server |-> Nil, api |-> called]}

\* s.instance.AttachVolume, a call of the Instance service: the set of
\* [err, volumes, servers]; an accepted attachment starts as a reference in
\* attaching state
InstanceAttachVolume(vols, srvs, serverID, volumeID, zone) ==
    LET z == zoneOrDefault(zone)
        fail(e) == [err |-> e, volumes |-> vols, servers |-> srvs]
    IN  {fail(OtherError)} \cup
        IF ~(serverID \in DOMAIN srvs /\ srvs[serverID].Zone = z)
        THEN {fail(ResourceNotFoundError)}
        ELSE IF ~(volumeID \in DOMAIN vols /\ vols[volumeID].Zone = z)
        THEN {fail(ResourceNotFoundError)}
        ELSE IF vols[volumeID].References # <<>>
        THEN {fail(PreconditionFailedError)}
        ELSE {[err |-> NoError,
               volumes |-> [vols EXCEPT ![volumeID].References =
                               <<serverReference(serverID, ReferenceStatusAttaching)>>],
               servers |-> [srvs EXCEPT ![serverID].Volumes =
                               MapPut(srvs[serverID].Volumes,
                                      firstFreeSlot(srvs[serverID]), volumeID)]]}

\* s.instance.DetachVolume, a call of the Instance service: the set of
\* [err, volumes, servers]; an accepted detachment turns the reference to
\* detaching state
InstanceDetachVolume(vols, srvs, volumeID, zone) ==
    LET z == zoneOrDefault(zone)
        fail(e) == [err |-> e, volumes |-> vols, servers |-> srvs]
    IN  {fail(OtherError)} \cup
        IF ~(volumeID \in DOMAIN vols /\ vols[volumeID].Zone = z)
        THEN {fail(ResourceNotFoundError)}
        ELSE IF vols[volumeID].References = <<>>
        THEN {fail(PreconditionFailedError)}
        ELSE {[err |-> NoError,
               volumes |-> [vols EXCEPT ![volumeID].References =
                               <<[vols[volumeID].References[1] EXCEPT
                                     !.Status = ReferenceStatusDetaching]>>],
               servers |-> srvs]}

\* the references a reference in progress may be found as: an attachment
\* completes, stays or is dropped, a detachment completes, stays or is gone
referenceProgress(ref) ==
    IF ref.Status = ReferenceStatusAttaching
    THEN {<<ref>>, <<[ref EXCEPT !.Status = ReferenceStatusAttached]>>, <<>>}
    ELSE IF ref.Status = ReferenceStatusDetaching
    THEN {<<ref>>, <<[ref EXCEPT !.Status = ReferenceStatusDetached]>>, <<>>}
    ELSE IF ref.Status = ReferenceStatusDetached
    THEN {<<ref>>, <<>>}
    ELSE {<<ref>>}

\* the states of a volume the Block Service may show while an attachment
\* or a detachment makes progress; a volume in use has a reference
volumeProgress(v) ==
    LET found == {[v EXCEPT !.Status = status, !.References = references] :
                     references \in (IF v.References = <<>> THEN {<<>>}
                                     ELSE referenceProgress(v.References[1])),
                     status \in {VolumeStatusAvailable, VolumeStatusInUse,
                                 VolumeStatusError}}
    IN  {w \in found : w.Status = VolumeStatusInUse => w.References # <<>>}

\* s.block.WaitForVolumeAndReferences, a helper of the SDK: the set of
\* [err, volume, volumes, servers]; it returns the volume as it found it last,
\* or an error when the context ended first
BlockWaitForVolumeAndReferences(vols, srvs, volumeID, zone) ==
    IF ~(volumeID \in DOMAIN vols /\ vols[volumeID].Zone = zoneOrDefault(zone))
    THEN {[err |-> ResourceNotFoundError, volume |-> Nil, volumes |-> vols, servers |-> srvs]}
    ELSE UNION {
        LET after == [vols EXCEPT ![volumeID] = w]
            srvsAfter == IF w.References = <<>> THEN withoutVolume(srvs, volumeID) ELSE srvs
        IN  {[err |-> NoError, volume |-> w, volumes |-> after, servers |-> srvsAfter],
             [err |-> OtherError, volume |-> Nil, volumes |-> after, servers |-> srvsAfter]} :
        w \in volumeProgress(vols[volumeID])}

\* a faulty variant of waitForVolumeAndReferences: the references are not
\* looked at
waitForVolumeOnly(r, volumeStatus, referenceStatus) ==
    IF r.err # NoError THEN r.err
    ELSE IF r.volume.Status # volumeStatus THEN OtherError
    ELSE NoError

\* Scaleway.waitForVolumeAndReferences, r the answer of
\* s.block.WaitForVolumeAndReferences: the error it returns
waitForVolumeAndReferences(r, volumeStatus, referenceStatus) ==
    IF r.err # NoError THEN r.err
    ELSE IF r.volume.Status # volumeStatus THEN OtherError
    ELSE IF \E i \in DOMAIN r.volume.References :
                r.volume.References[i].Status # referenceStatus
    THEN OtherError
    ELSE NoError

\* Scaleway.AttachVolume: the set of [err, volumes, servers]
ScalewayAttachVolume(vols, srvs, serverID, volumeID, zone) ==
    IF ~isValidUUID(serverID) \/ ~isValidUUID(volumeID)
    THEN {[err |-> ResourceNotFoundError, volumes |-> vols, servers |-> srvs,
           api |-> <<>>]}
    ELSE UNION {
        IF a.err # NoError
        THEN {[err |-> a.err, volumes |-> a.volumes, servers |-> a.servers,
               api |-> <<"instance.AttachVolume">>]}
        ELSE {[err |-> waitForVolumeAndReferences(r, VolumeStatusInUse,
                                                  ReferenceStatusAttached),
               volumes |-> r.volumes, servers |-> r.servers,
               api |-> <<"instance.AttachVolume", "block.WaitForVolumeAndReferences">>] :
              r \in BlockWaitForVolumeAndReferences(a.volumes, a.servers, volumeID, zone)} :
        a \in InstanceAttachVolume(vols, srvs, serverID, volumeID, zone)}

\* Scaleway.DetachVolume: the set of [err, volumes, servers]
ScalewayDetachVolume(vols, srvs, volumeID, zone) ==
    UNION {
        IF a.err # NoError
        THEN {[err |-> a.err, volumes |-> a.volumes, servers |-> a.servers,
               api |-> <<"instance.DetachVolume">>]}
        ELSE {[err |-> waitForVolumeAndReferences(r, VolumeStatusAvailable,
                                                  ReferenceStatusDetached),
               volumes |-> r.volumes, servers |-> r.servers,
               api |-> <<"instance.DetachVolume", "block.WaitForVolumeAndReferences">>] :
              r \in BlockWaitForVolumeAndReferences(a.volumes, a.servers, volumeID, zone)} :
        a \in InstanceDetachVolume(vols, srvs, volumeID, zone)}

\* ControllerPublishVolume from d.scaleway.GetVolume up to d.scaleway.GetServer,
\* d.scaleway the SDK-backed client
ClientPublishGetVolume(t) ==
    /\ tasks[t].kind = "ControllerPublishVolume" /\ tasks[t].pc = "GetVolume"
    /\ \E r \in ScalewayGetVolume(volumes, tasks[t].volumeID, tasks[t].volumeZone) :
         LET tk == [Called(tasks[t], "GetVolume") EXCEPT !.pc = "GetServer",
                                                         !.volumeResp = r.volume]
         IN  Proceed(t, tk,
                 IF r.err # NoError THEN ErrorResponse(codeFromScalewayError(r.err))
                 ELSE Nil)
    /\ UNCHANGED <<host, firstPublish, volumes, snapshots, servers, nextVolume, nextSnapshot>>

\* ControllerPublishVolume from d.scaleway.GetServer up to the test of
\* len(server.Volumes), d.scaleway the SDK-backed client
ClientPublishGetServer(t) ==
    /\ tasks[t].kind = "ControllerPublishVolume" /\ tasks[t].pc = "GetServer"
    /\ \E r \in ScalewayGetServer(servers, tasks[t].nodeID, tasks[t].nodeZone) :
         LET tk == [Called(tasks[t], "GetServer") EXCEPT !.pc = "AttachVolume",
                                                         !.server = r.server]
         IN  Proceed(t, tk,
                 IF r.err # NoError THEN ErrorResponse(codeFromScalewayError(r.err))
                 ELSE alreadyAttached(tk.volumeResp, r.server))
    /\ UNCHANGED <<host, firstPublish, volumes, snapshots, servers, nextVolume, nextSnapshot>>

\* ControllerPublishVolume from the test of len(server.Volumes) on,
\* d.scaleway the SDK-backed client
ClientPublishAttachVolume(t) ==
    /\ tasks[t].kind = "ControllerPublishVolume" /\ tasks[t].pc = "AttachVolume"
    /\ LET n == Cardinality(DOMAIN tasks[t].server.Volumes)
           seen == [tasks[t] EXCEPT !.seenVolumes = n,
                                    !.before = stored(tasks[t].volumeID)]
           tk == Called(seen, "AttachVolume")
       IN  IF n = MaxVolumesPerNode
           THEN /\ Proceed(t, seen, ErrorResponse(ResourceExhausted))
                /\ UNCHANGED <<host, volumes, servers>>
           ELSE \E r \in ScalewayAttachVolume(volumes, servers, tk.nodeID,
                                              tk.volumeID, tk.volumeZone) :
                  /\ volumes' = r.volumes
                  /\ servers' = r.servers
                  /\ Proceed(t, tk,
                         IF r.err # NoError THEN ErrorResponse(Internal)
                         ELSE [EmptyResponse EXCEPT
                                  !.PublishContext = publishContext(tk.volumeResp)])
    /\ UNCHANGED <<host, firstPublish, snapshots, nextVolume, nextSnapshot>>

\* ControllerUnpublishVolume from d.scaleway.GetVolume up to
\* d.scaleway.GetServer, d.scaleway the SDK-backed client
ClientUnpublishGetVolume(t) ==
    /\ tasks[t].kind = "ControllerUnpublishVolume" /\ tasks[t].pc = "GetVolume"
    /\ \E r \in ScalewayGetVolume(volumes, tasks[t].volumeID, tasks[t].volumeZone) :
         LET tk == [Called(tasks[t], "GetVolume") EXCEPT !.pc = "GetServer",
                                                         !.volumeResp = r.volume]
         IN  Proceed(t, tk,
                 IF r.err # NoError THEN notFoundIsSuccess(r.err)
                 ELSE IF Len(publishedNodeIDs(r.volume)) = 0 THEN EmptyResponse
                 ELSE Nil)
    /\ UNCHANGED <<host, firstPublish, volumes, snapshots, servers, nextVolume, nextSnapshot>>

\* ControllerUnpublishVolume from d.scaleway.GetServer up to
\* d.scaleway.DetachVolume, d.scaleway the SDK-backed client
ClientUnpublishGetServer(t) ==
    /\ tasks[t].kind = "ControllerUnpublishVolume" /\ tasks[t].pc = "GetServer"
    /\ \E r \in ScalewayGetServer(servers, tasks[t].nodeID, tasks[t].nodeZone) :
         LET tk == [Called(tasks[t], "GetServer") EXCEPT !.pc = "DetachVolume",
                                                         !.server = r.server]
         IN  Proceed(t, tk, IF r.err # NoError THEN notFoundIsSuccess(r.err) ELSE Nil)
    /\ UNCHANGED <<host, firstPublish, volumes, snapshots, servers, nextVolume, nextSnapshot>>

\* ControllerUnpublishVolume from d.scaleway.DetachVolume on, d.scaleway the
\* SDK-backed client
ClientUnpublishDetachVolume(t) ==
    /\ tasks[t].kind = "ControllerUnpublishVolume" /\ tasks[t].pc = "DetachVolume"
    /\ \E r \in ScalewayDetachVolume(volumes, servers, tasks[t].volumeID,
                                     tasks[t].volumeZone) :
         /\ volumes' = r.volumes
         /\ servers' = r.servers
         /\ Proceed(t, [Called(tasks[t], "DetachVolume") EXCEPT
                           !.before = stored(tasks[t].volumeID)],
                IF r.err # NoError THEN ErrorResponse(Internal) ELSE EmptyResponse)
    /\ UNCHANGED <<host, firstPublish, snapshots, nextVolume, nextSnapshot>>

\* the Block Service holds one volume, attached to no server
WaitInit ==
    /\ volumes = MapPut(<<>>, "vol-1", ServiceVolume("vol-1", ZoneFrPar1, <<>>))
    /\ snapshots = <<>>
    /\ servers = InitialServers
    /\ nextVolume = 1
    /\ nextSnapshot = 1
    /\ locks = {}
    /\ tasks = [t \in Tasks |-> IdleTask]
    /\ firstPublish = <<>>
    /\ host = InitialHost

WaitVolumeIds == {<<"vol-1">>, <<"vol-2">>, <<"pvc-foo">>}

WaitNext ==
    \E t \in {1} :
        \/ \E id \in WaitVolumeIds, node \in AttachNodeIds :
             BeginControllerPublishVolume(t, PublishRequest(id, node, MountCapability))
        \/ PublishLock(t)
        \/ ClientPublishGetVolume(t)
        \/ ClientPublishGetServer(t)
        \/ ClientPublishAttachVolume(t)
        \/ \E id \in WaitVolumeIds, node \in AttachNodeIds :
             BeginControllerUnpublishVolume(t, UnpublishRequest(id, node))
        \/ UnpublishLock(t)
        \/ ClientUnpublishGetVolume(t)
        \/ ClientUnpublishGetServer(t)
        \/ ClientUnpublishDetachVolume(t)

WaitSpec == WaitInit /\ [][WaitNext]_vars

\* the references of the stored volume that are not in the given state
referencesNotIn(vols, volumeID, status) ==
    {i \in DOMAIN vols[volumeID].References :
        vols[volumeID].References[i].Status # status}

\* goroutine t returns from d.scaleway.AttachVolume (DetachVolume) with no
\* error in this step
clientCallSucceeds(t, kind, call) ==
    /\ tasks[t].kind = kind /\ tasks[t].pc = call
    /\ tasks'[t].pc = "done"
    /\ call \in Range(tasks'[t].calls)
    /\ tasks'[t].resp.code = OK

\* C21: the cloud client's AttachVolume returns success only when the volume
\* is in_use and its server reference is attached, and DetachVolume only
\* when the volume is available and no reference is left in a state other
\* than detached; every other final state is an error
C21_AttachDetachWait ==
    [][\A t \in Tasks :
          /\ clientCallSucceeds(t, "ControllerPublishVolume", "AttachVolume") =>
                /\ volumes'[tasks[t].volumeID].Status = VolumeStatusInUse
                /\ volumes'[tasks[t].volumeID].References =
                       <<serverReference(tasks[t].nodeID, ReferenceStatusAttached)>>
          /\ clientCallSucceeds(t, "ControllerUnpublishVolume", "DetachVolume") =>
                /\ volumes'[tasks[t].volumeID].Status = VolumeStatusAvailable
                /\ referencesNotIn(volumes', tasks[t].volumeID,
                                   ReferenceStatusDetached) = {}]_vars

\* a publish attached the volume to a server and waited it out
C21_Witness ==
    \E t \in Tasks :
        /\ Returned(t, "ControllerPublishVolume")
        /\ tasks[t].resp.code = OK
        /\ "AttachVolume" \in Range(tasks[t].calls)
        /\ volumes["vol-1"].Status = VolumeStatusInUse
        /\ volumes["vol-1"].References =
               <<serverReference("srv-2", ReferenceStatusAttached)>>

\* an unpublish detached the volume and waited that out
DetachedAndWaited ==
    \E t \in Tasks :
        /\ Returned(t, "ControllerUnpublishVolume")
        /\ tasks[t].resp.code = OK
        /\ "DetachVolume" \in Range(tasks[t].calls)
        /\ volumes["vol-1"].Status = VolumeStatusAvailable
        /\ volumes["vol-1"].References \in
               {<<>>, <<serverReference("srv-2", ReferenceStatusDetached)>>}


\* C29: whenever ControllerPublishVolume returns success, the volume is
\* in_use and its instance_server reference to the requested server is in
\* attached state, on the already-attached shortcut as well
C29_PublishedIsAttached ==
    \A t \in Tasks :
        (Returned(t, "ControllerPublishVolume") /\ tasks[t].resp.code = OK) =>
            /\ tasks[t].volumeID \in DOMAIN volumes
            /\ volumes[tasks[t].volumeID].Status = VolumeStatusInUse
            /\ volumes[tasks[t].volumeID].References =
                   <<serverReference(tasks[t].nodeID, ReferenceStatusAttached)>>


\* the servers the stored volume has an instance_server reference to
attachedServers(vols, volumeID) ==
    IF volumeID \notin DOMAIN vols THEN {}
    ELSE {vols[volumeID].References[i].ProductResourceID :
             i \in {j \in DOMAIN vols[volumeID].References :
                      vols[volumeID].References[j].ProductResourceType
                          = InstanceServerProductResourceType}}

\* C30: ControllerUnpublishVolume for a volume and a node N never detaches
\* the volume from a server other than N
C30_DetachesOnlyFromNode ==
    [][\A t \in Tasks :
          tasks[t].kind = "ControllerUnpublishVolume" =>
              (attachedServers(volumes, tasks[t].volumeID)
                  \ attachedServers(volumes', tasks[t].volumeID)) \subseteq {tasks[t].nodeID}]_vars


\* ------------------------------------------------------------------------
\* The helpers of the driver, applied to drawn inputs
\* ------------------------------------------------------------------------
\* the longest resource id drawn, in symbols
MaxIDLen == 3

\* the longest list of requisite or of preferred topologies drawn
MaxTopologies == 2

\* a string is a sequence of symbols: the separator, a letter, or the name
\* of a zone taken as one symbol
Slash == "/"

Symbols == {Slash, "a"} \cup Zones

\* the string of a zone
zoneString(zone) == IF zone = "" THEN <<>> ELSE <<zone>>

RECURSIVE stringOf(_)
\* the Go string a sequence of symbols spells
stringOf(s) == IF s = <<>> THEN "" ELSE s[1] \o stringOf(Tail(s))

RECURSIVE Split(_)
\* strings.Split(s, "/")
Split(s) ==
    IF Slash \notin Range(s) THEN <<s>>
    ELSE LET i == CHOOSE k \in DOMAIN s :
                      s[k] = Slash /\ \A j \in 1..(k - 1) : s[j] # Slash
         IN  <<SubSeq(s, 1, i - 1)>> \o Split(SubSeq(s, i + 1, Len(s)))

\* a faulty variant of zonalIDString: the id comes first
zonalIDStringReversed(id, zone) == id \o <<Slash>> \o zoneString(zone)

\* expandZonalID on strings: fmt.Sprintf("%s/%s", zone, id)
zonalIDString(id, zone) == zoneString(zone) \o <<Slash>> \o id

\* ExtractIDAndZone on a string: strings.Split, then the cases on the parts
extractIDAndZoneString(s) ==
    LET splitID == Split(s)
    IN  ExtractIDAndZone([i \in DOMAIN splitID |-> stringOf(splitID[i])])

\* the resource ids drawn
HelperIDs == UNION {[1..n -> Symbols] : n \in 0..MaxIDLen}

\* the zones drawn: the zones of the SDK, no zone, and a name that is no zone
HelperZones == Zones \cup {NoZone, "xx"}

\* the capacity ranges drawn
HelperSizes == {0, HalfGB, GB, 3 * HalfGB, 2 * GB}

HelperRanges == {Nil} \cup [required : HelperSizes, limit : HelperSizes]

\* the topologies drawn
HelperSegments ==
    [key : {ZoneTopologyKey}, value : Zones \cup {"xx"}]
        \cup {[key |-> "kubernetes.io/hostname", value |-> ZoneFrPar1]}

HelperSegmentLists == UNION {[1..n -> HelperSegments] : n \in 0..MaxTopologies}

HelperRequirements ==
    {Nil} \cup [Requisite : HelperSegmentLists, Preferred : HelperSegmentLists]

\* one call of a helper, its arguments drawn
HelperCalls ==
    {[IdleTask EXCEPT !.kind = "ExtractIDAndZone", !.req = [id |-> id, zone |-> zone]] :
        id \in HelperIDs, zone \in HelperZones}
    \cup {[IdleTask EXCEPT !.kind = "getVolumeRequestCapacity", !.req = r] :
        r \in HelperRanges}
    \cup {[IdleTask EXCEPT !.kind = "chooseZones",
                           !.req = [accessibilityRequirements |-> a, snapshotZone |-> z]] :
        a \in HelperRequirements, z \in {NoZone, ZoneFrPar1}}

HelperInit ==
    /\ volumes = <<>>
    /\ snapshots = <<>>
    /\ servers = InitialServers
    /\ nextVolume = 1
    /\ nextSnapshot = 1
    /\ locks = {}
    /\ firstPublish = <<>>
    /\ host = InitialHost
    /\ \E call \in HelperCalls : tasks = [t \in Tasks |-> IF t = 1 THEN call ELSE IdleTask]

\* the helper of goroutine t returns resp
helperReturns(t, resp) ==
    /\ tasks' = [tasks EXCEPT ![t] = [@ EXCEPT !.pc = "done", !.resp = resp]]
    /\ UNCHANGED <<host, volumes, snapshots, servers, nextVolume, nextSnapshot, locks,
                   firstPublish>>

\* ExtractIDAndZone(expandZonalID(id, zone))
CallExtractIDAndZone(t) ==
    /\ tasks[t].kind = "ExtractIDAndZone" /\ tasks[t].pc = "idle"
    /\ helperReturns(t, extractIDAndZoneString(
                           zonalIDString(tasks[t].req.id, tasks[t].req.zone)))

\* getVolumeRequestCapacity(capacityRange)
CallGetVolumeRequestCapacity(t) ==
    /\ tasks[t].kind = "getVolumeRequestCapacity" /\ tasks[t].pc = "idle"
    /\ helperReturns(t, getVolumeRequestCapacity(tasks[t].req))

\* chooseZones(accessibilityRequirements, snapshotZone)
CallChooseZones(t) ==
    /\ tasks[t].kind = "chooseZones" /\ tasks[t].pc = "idle"
    /\ \E r \in chooseZones(tasks[t].req.accessibilityRequirements,
                            tasks[t].req.snapshotZone) :
           helperReturns(t, r)

HelperNext ==
    \E t \in {1} :
        \/ CallExtractIDAndZone(t)
        \/ CallGetVolumeRequestCapacity(t)
        \/ CallChooseZones(t)

HelperSpec == HelperInit /\ [][HelperNext]_vars

\* C26: for every resource id that contains no '/' and every valid zone,
\* ExtractIDAndZone(expandZonalID(id, zone)) is (id, zone) with no error
C26_RoundTrip ==
    \A t \in Tasks :
        (/\ Returned(t, "ExtractIDAndZone")
         /\ Slash \notin Range(tasks[t].req.id)
         /\ tasks[t].req.zone \in Zones) =>
            tasks[t].resp = [err |-> NoError, id |-> stringOf(tasks[t].req.id),
                             zone |-> tasks[t].req.zone]

\* the round trip was made for an id of several symbols and a zone
C26_Witness ==
    \E t \in Tasks :
        /\ Returned(t, "ExtractIDAndZone")
        /\ tasks[t].req.id = <<"a", ZoneFrPar1, "a">>
        /\ tasks[t].req.zone = ZoneFrPar2
        /\ tasks[t].resp.id = "afr-par-1a"
        /\ tasks[t].resp.zone = ZoneFrPar2

\* the round trip of an id that contains a '/' does not give the id back
SlashBreaksRoundTrip ==
    \E t \in Tasks :
        /\ Returned(t, "ExtractIDAndZone")
        /\ Slash \in Range(tasks[t].req.id)
        /\ tasks[t].req.zone \in Zones
        /\ tasks[t].resp.err = InvalidArgument


\* the (required_bytes, limit_bytes) of a capacity range, 0 for unset
bytesOf(r) == IF r = Nil THEN [required |-> 0, limit |-> 0] ELSE r

\* the answer the rules give for (required, limit), limitRule telling when
\* the rule on a limit below the minimum applies: "error" or a size
capacityByRules(required, limit, limitRule) ==
    IF required > 0 /\ limit > 0 /\ limit < required THEN "error"
    ELSE IF required > 0 /\ limit = 0 /\ required < MinVolumeSize THEN "error"
    ELSE IF limitRule /\ limit < MinVolumeSize THEN "error"
    ELSE IF required > 0 /\ limit > 0 /\ required = limit THEN ToString(required)
    ELSE IF required > 0 THEN ToString(required)
    ELSE IF limit > 0 THEN ToString(limit)
    ELSE ToString(MinVolumeSize)

\* what getVolumeRequestCapacity answered goroutine t: "error" or a size
capacityAnswer(t) ==
    IF tasks[t].resp.err # NoError THEN "error" ELSE ToString(tasks[t].resp.size)

\* C27 as stated: a limit below MinVolumeSize is an error only when the
\* limit alone is set; the other rules as in C27_LimitBelowMinimum
C27_RulesInOrder ==
    \A t \in Tasks :
        Returned(t, "getVolumeRequestCapacity") =>
            LET b == bytesOf(tasks[t].req)
            IN  capacityAnswer(t) =
                    capacityByRules(b.required, b.limit, b.limit > 0 /\ b.required = 0)

\* C27: getVolumeRequestCapacity resolves (required_bytes, limit_bytes), 0
\* meaning unset, by these rules in order: both set and limit < required is
\* an error; only required set and below MinVolumeSize is an error; limit
\* set and below MinVolumeSize is an error, whether required is set or not;
\* both set and equal gives that value; required set gives required; limit
\* set gives limit; neither set gives MinVolumeSize
C27_LimitBelowMinimum ==
    \A t \in Tasks :
        Returned(t, "getVolumeRequestCapacity") =>
            LET b == bytesOf(tasks[t].req)
            IN  capacityAnswer(t) = capacityByRules(b.required, b.limit, b.limit > 0)

\* a range with both sizes set, the limit not below the required size and
\* below the minimum, was refused
C27_Witness ==
    \E t \in Tasks :
        /\ Returned(t, "getVolumeRequestCapacity")
        /\ tasks[t].req = [required |-> HalfGB, limit |-> HalfGB]
        /\ tasks[t].resp.err # NoError


RECURSIVE zonesInOrder(_, _, _)
\* the zones a list of topologies names, in the order given and each once:
\* the segments under the zone key whose value is a zone, and the snapshot
\* zone when there is one
zonesInOrder(list, snapshotZone, seen) ==
    IF list = <<>> THEN <<>>
    ELSE LET s == Head(list)
             named == /\ s.key = ZoneTopologyKey
                      /\ s.value \in Zones
                      /\ (snapshotZone = NoZone \/ snapshotZone = s.value)
                      /\ s.value \notin seen
         IN  IF named
             THEN <<s.value>> \o zonesInOrder(Tail(list), snapshotZone, seen \cup {s.value})
             ELSE zonesInOrder(Tail(list), snapshotZone, seen)

MaxScratch == 2

encryptedKey == "encrypted"

encryptionPassphraseKey == "encryptionPassphrase"

ErrNotExist == "fs.ErrNotExist"

\* devicePath: path.Join(diskByIDPath, diskSCWPrefix+volumeID)
devicePath(volumeID) == "/dev/disk/by-id/scsi-0SCW_b_ssd_volume-" \o volumeID

\* diskLuksMapperPath + diskLuksMapperPrefix + volumeID
mappedPath(volumeID) == "/dev/mapper/scw-luks-" \o volumeID

\* the paths of the instance that are block devices
blockDevices(h) ==
    {devicePath(id) : id \in h.devices} \cup {mappedPath(id) : id \in h.mapped}

\* isVolumeEncrypted: [err, encrypted] of a volume context
isVolumeEncrypted(volumeContext) ==
    IF encryptedKey \in DOMAIN volumeContext
    THEN LET b == ParseBool(volumeContext[encryptedKey])
         IN  IF b.err # NoError THEN [err |-> OtherError, encrypted |-> FALSE]
             ELSE [err |-> NoError, encrypted |-> b.value]
    ELSE [err |-> NoError, encrypted |-> FALSE]

\* diskUtils.GetDevicePath: [err, path]
GetDevicePath(h, volumeID) ==
    IF volumeID \in h.devices THEN [err |-> NoError, path |-> devicePath(volumeID)]
    ELSE [err |-> ErrNotExist, path |-> ""]

\* diskUtils.GetMappedDevicePath: the path of the open mapping, "" when the
\* device is not open
GetMappedDevicePath(h, volumeID) ==
    IF volumeID \in h.mapped THEN mappedPath(volumeID) ELSE ""

\* diskUtils.IsMounted
IsMounted(h, targetPath) == targetPath \in DOMAIN h.mounts

\* diskUtils.IsBlockDevice: [err, block]
IsBlockDevice(h, path) ==
    IF path \in DOMAIN h.mounts THEN [err |-> NoError, block |-> h.mounts[path].block]
    ELSE IF path \in DOMAIN h.paths THEN [err |-> NoError, block |-> FALSE]
    ELSE [err |-> ErrNotExist, block |-> FALSE]

\* a faulty variant of luksIsLuks: no device is taken for a LUKS device
luksIsLuksNever(h, path) == FALSE

\* luksIsLuks: cryptsetup isLuks finds a LUKS header on the device
luksIsLuks(h, path) == \E id \in h.luks : devicePath(id) = path

\* a faulty variant of alreadyOpen: an open device is not recognised
neverOpen(h, volumeID) == FALSE

\* diskUtils.EncryptAndOpenDevice, "device is already encrypted and open"
alreadyOpen(h, volumeID) == GetMappedDevicePath(h, volumeID) # ""

\* diskUtils.EncryptAndOpenDevice: [err, path, host, ran], ran the commands
\* it ran
EncryptAndOpenDevice(h, volumeID, passphrase) ==
    IF alreadyOpen(h, volumeID)
    THEN [err |-> NoError, path |-> mappedPath(volumeID), host |-> h, ran |-> <<>>]
    ELSE IF GetDevicePath(h, volumeID).err # NoError
    THEN [err |-> GetDevicePath(h, volumeID).err, path |-> "", host |-> h, ran |-> <<>>]
    ELSE LET isLuks == luksIsLuks(h, devicePath(volumeID))
             formatted == IF isLuks THEN h
                          ELSE [h EXCEPT !.luks = @ \cup {volumeID},
                                         !.filesystems = @ \ {devicePath(volumeID),
                                                              mappedPath(volumeID)}]
         IN  [err |-> NoError, path |-> mappedPath(volumeID),
              host |-> [formatted EXCEPT !.mapped = @ \cup {volumeID}],
              ran |-> (IF isLuks THEN <<>> ELSE <<"luksFormat">>) \o <<"luksOpen">>]

\* diskUtils.CloseDevice: [err, host, ran]
CloseDevice(h, volumeID) ==
    IF GetMappedDevicePath(h, volumeID) # ""
    THEN [err |-> NoError, host |-> [h EXCEPT !.mapped = @ \ {volumeID}],
          ran |-> <<"luksClose">>]
    ELSE [err |-> NoError, host |-> h, ran |-> <<>>]

\* diskUtils.FormatAndMount: [err, host, ran]; the device is formatted when
\* it holds no filesystem, then mounted, which fails without the target
FormatAndMount(h, targetPath, device) ==
    LET format == device \notin h.filesystems
        formatted == [h EXCEPT !.filesystems = @ \cup {device}]
        mkfs == IF format THEN <<"mkfs">> ELSE <<>>
    IN  IF device \notin blockDevices(h)
        THEN [err |-> OtherError, host |-> h, ran |-> <<>>]
        ELSE IF targetPath \notin DOMAIN h.paths
        THEN [err |-> OtherError, host |-> formatted, ran |-> mkfs]
        ELSE [err |-> NoError,
              host |-> [formatted EXCEPT !.mounts =
                           MapPut(@, targetPath, [source |-> device, block |-> FALSE])],
              ran |-> mkfs \o <<"mount">>]

\* diskUtils.Unmount, kmount.CleanupMountPoint: [err, host, ran]; the mount
\* point is unmounted and removed
Unmount(h, target) ==
    IF target \notin DOMAIN h.paths THEN [err |-> NoError, host |-> h, ran |-> <<>>]
    ELSE [err |-> NoError,
          host |-> [h EXCEPT !.mounts = MapDelete(@, target), !.paths = MapDelete(@, target)],
          ran |-> IF target \in DOMAIN h.mounts THEN <<"umount">> ELSE <<>>]

\* createMountPoint: [err, host]
createMountPoint(h, path, file) ==
    LET kind == IF file THEN "file" ELSE "dir"
    IN  IF path \notin DOMAIN h.paths
        THEN [err |-> NoError, host |-> [h EXCEPT !.paths = MapPut(@, path, kind)]]
        ELSE IF h.paths[path] = kind THEN [err |-> NoError, host |-> h]
        ELSE [err |-> OtherError, host |-> h]

\* diskUtils.MountToTarget with the bind option: [err, host, ran]
MountToTarget(h, sourcePath, targetPath) ==
    IF /\ sourcePath \notin blockDevices(h)
       /\ sourcePath \notin DOMAIN h.paths
    THEN [err |-> OtherError, host |-> h, ran |-> <<>>]
    ELSE [err |-> NoError,
          host |-> [h EXCEPT !.mounts =
                       MapPut(@, targetPath, [source |-> sourcePath,
                                              block |-> sourcePath \in blockDevices(h)])],
          ran |-> <<"bind">>]

\* the RPC of the node service returns: the goroutine keeps the request, the
\* response, the commands run, the instance before and after, and what the
\* same call returned the time before
nodeReturns(t, kind, req, code, after, ran) ==
    /\ host' = after
    /\ tasks' = [tasks EXCEPT ![t] =
           [IdleTask EXCEPT
               !.kind = kind, !.pc = "done", !.req = req,
               !.resp = ErrorResponse(code), !.calls = ran,
               !.before = host, !.after = after,
               !.prev = IF tasks[t].kind = kind /\ tasks[t].req = req
                        THEN [code |-> tasks[t].resp.code, after |-> tasks[t].after]
                        ELSE Nil]]
    /\ UNCHANGED <<volumes, snapshots, servers, nextVolume, nextSnapshot, locks, firstPublish>>

\* NodeStageVolume: [code, host, ran]
nodeStageVolume(h, req) ==
    LET fail(code) == [code |-> code, host |-> h, ran |-> <<>>]
        v == ExtractIDAndZone(req.VolumeId)
        e == isVolumeEncrypted(req.VolumeContext)
        c == validateVolumeCapability(req.VolumeCapability)
    IN  IF v.err # NoError THEN fail(InvalidArgument)
        ELSE IF e.err # NoError THEN fail(InvalidArgument)
        ELSE IF req.StagingTargetPath = "" THEN fail(InvalidArgument)
        ELSE IF req.VolumeCapability = Nil THEN fail(InvalidArgument)
        ELSE IF c.err # NoError THEN fail(InvalidArgument)
        ELSE IF \/ "volumeName" \notin DOMAIN req.PublishContext
                \/ req.PublishContext["volumeName"] = ""
        THEN fail(InvalidArgument)
        ELSE IF "volumeID" \notin DOMAIN req.PublishContext THEN fail(InvalidArgument)
        ELSE LET scwVolumeID == req.PublishContext["volumeID"]
                 d == GetDevicePath(h, scwVolumeID)
             IN
        IF d.err # NoError THEN fail(NotFound)
        ELSE IF e.encrypted /\ encryptionPassphraseKey \notin DOMAIN req.Secrets
        THEN fail(InvalidArgument)
        ELSE LET o == IF e.encrypted
                      THEN EncryptAndOpenDevice(h, scwVolumeID,
                                                req.Secrets[encryptionPassphraseKey])
                      ELSE [err |-> NoError, path |-> d.path, host |-> h, ran |-> <<>>]
             IN
        IF o.err # NoError THEN [code |-> Internal, host |-> o.host, ran |-> o.ran]
        ELSE IF c.block THEN [code |-> OK, host |-> o.host, ran |-> o.ran]
        ELSE IF IsMounted(o.host, req.StagingTargetPath)
        THEN LET b == IsBlockDevice(o.host, req.StagingTargetPath)
             IN  [code |-> IF b.err # NoError THEN Internal
                           ELSE IF b.block THEN Unknown ELSE OK,
                  host |-> o.host, ran |-> o.ran]
        ELSE LET f == FormatAndMount(o.host, req.StagingTargetPath, o.path)
             IN  [code |-> IF f.err # NoError THEN Internal ELSE OK,
                  host |-> f.host, ran |-> o.ran \o f.ran]

NodeStageVolume(t, req) ==
    /\ ~InFlight(tasks[t])
    /\ LET r == nodeStageVolume(host, req)
       IN  nodeReturns(t, "NodeStageVolume", req, r.code, r.host, r.ran)

\* NodeUnstageVolume: [code, host, ran]
nodeUnstageVolume(h, req) ==
    LET fail(code) == [code |-> code, host |-> h, ran |-> <<>>]
        v == ExtractIDAndZone(req.VolumeId)
    IN  IF v.err # NoError THEN fail(InvalidArgument)
        ELSE IF req.StagingTargetPath = "" THEN fail(InvalidArgument)
        ELSE IF GetDevicePath(h, v.id).err # NoError THEN fail(NotFound)
        ELSE IF req.StagingTargetPath \notin DOMAIN h.paths THEN fail(NotFound)
        ELSE LET u == IF IsMounted(h, req.StagingTargetPath)
                      THEN Unmount(h, req.StagingTargetPath)
                      ELSE [err |-> NoError, host |-> h, ran |-> <<>>]
                 c == CloseDevice(u.host, v.id)
             IN  IF u.err # NoError THEN [code |-> Internal, host |-> u.host, ran |-> u.ran]
                 ELSE [code |-> IF c.err # NoError THEN Internal ELSE OK,
                       host |-> c.host, ran |-> u.ran \o c.ran]

NodeUnstageVolume(t, req) ==
    /\ ~InFlight(tasks[t])
    /\ LET r == nodeUnstageVolume(host, req)
       IN  nodeReturns(t, "NodeUnstageVolume", req, r.code, r.host, r.ran)

\* a faulty variant of capabilityMismatch: the mounted type is not compared
noMismatch(blockDevice, block, mount) == FALSE

\* NodePublishVolume, "cannot change volumeCapability type"
capabilityMismatch(blockDevice, block, mount) ==
    (blockDevice /\ mount) \/ (~blockDevice /\ block)

\* NodePublishVolume: [code, host, ran]
nodePublishVolume(h, req) ==
    LET fail(code) == [code |-> code, host |-> h, ran |-> <<>>]
        v == ExtractIDAndZone(req.VolumeId)
        e == isVolumeEncrypted(req.VolumeContext)
        c == validateVolumeCapability(req.VolumeCapability)
    IN  IF v.err # NoError THEN fail(InvalidArgument)
        ELSE IF req.TargetPath = "" THEN fail(InvalidArgument)
        ELSE IF req.VolumeCapability = Nil THEN fail(InvalidArgument)
        ELSE IF c.err # NoError THEN fail(InvalidArgument)
        ELSE IF req.StagingTargetPath = "" THEN fail(FailedPrecondition)
        ELSE IF "volumeID" \notin DOMAIN req.PublishContext THEN fail(InvalidArgument)
        ELSE IF "volumeName" \notin DOMAIN req.PublishContext THEN fail(InvalidArgument)
        ELSE LET scwVolumeID == req.PublishContext["volumeID"]
                 d == GetDevicePath(h, scwVolumeID)
             IN
        IF d.err # NoError THEN fail(NotFound)
        ELSE IF e.err # NoError THEN fail(InvalidArgument)
        ELSE LET device == IF e.encrypted THEN GetMappedDevicePath(h, scwVolumeID)
                           ELSE d.path
             IN
        IF IsMounted(h, req.TargetPath)
        THEN LET b == IsBlockDevice(h, req.TargetPath)
             IN  fail(IF b.err # NoError THEN Internal
                      ELSE IF capabilityMismatch(b.block, c.block, c.mount)
                      THEN AlreadyExists
                      ELSE OK)
        ELSE LET sourcePath == IF c.block THEN device ELSE req.StagingTargetPath
                 p == createMountPoint(h, req.TargetPath, c.block)
                 b == MountToTarget(p.host, sourcePath, req.TargetPath)
             IN  IF p.err # NoError THEN fail(Internal)
                 ELSE [code |-> IF b.err # NoError THEN Internal ELSE OK,
                       host |-> b.host, ran |-> b.ran]

NodePublishVolume(t, req) ==
    /\ ~InFlight(tasks[t])
    /\ LET r == nodePublishVolume(host, req)
       IN  nodeReturns(t, "NodePublishVolume", req, r.code, r.host, r.ran)

\* NodeUnpublishVolume
NodeUnpublishVolume(t, req) ==
    /\ ~InFlight(tasks[t])
    /\ LET u == Unmount(host, req.TargetPath)
       IN  IF req.TargetPath = ""
           THEN nodeReturns(t, "NodeUnpublishVolume", req, InvalidArgument, host, <<>>)
           ELSE nodeReturns(t, "NodeUnpublishVolume", req,
                            IF u.err # NoError THEN Internal ELSE OK, u.host, u.ran)

\* attachedScratchVolumes: the scratch volumes of the instance metadata
attachedScratchVolumes(h) == h.scratch

\* NodeGetInfo: the response carries max_volumes_per_node
NodeGetInfo(t) ==
    /\ ~InFlight(tasks[t])
    /\ tasks' = [tasks EXCEPT ![t] =
           [IdleTask EXCEPT
               !.kind = "NodeGetInfo", !.pc = "done",
               !.resp = [code |-> OK, MaxVolumesPerNode |-> MaxVolumesPerNode - 1]]]
    /\ UNCHANGED <<host, volumes, snapshots, servers, nextVolume, nextSnapshot, locks,
                   firstPublish>>

\* the instance outside the node service: the controller's attach makes the
\* device of the volume appear
DeviceAppears(id) ==
    /\ id \notin host.devices
    /\ host' = [host EXCEPT !.devices = @ \cup {id}]
    /\ UNCHANGED <<tasks, volumes, snapshots, servers, nextVolume, nextSnapshot, locks,
                   firstPublish>>

\* the controller's detach takes the device away, once nothing uses it
DeviceDisappears(id) ==
    /\ id \in host.devices
    /\ id \notin host.mapped
    /\ \A p \in DOMAIN host.mounts : host.mounts[p].source # devicePath(id)
    /\ host' = [host EXCEPT !.devices = @ \ {id}]
    /\ UNCHANGED <<tasks, volumes, snapshots, servers, nextVolume, nextSnapshot, locks,
                   firstPublish>>

\* the container orchestrator creates the staging directory
PathCreated(path) ==
    /\ path \notin DOMAIN host.paths
    /\ host' = [host EXCEPT !.paths = MapPut(@, path, "dir")]
    /\ UNCHANGED <<tasks, volumes, snapshots, servers, nextVolume, nextSnapshot, locks,
                   firstPublish>>

\* the container orchestrator removes a directory that is no mount point
PathRemoved(path) ==
    /\ path \in DOMAIN host.paths
    /\ path \notin DOMAIN host.mounts
    /\ host' = [host EXCEPT !.paths = MapDelete(@, path)]
    /\ UNCHANGED <<tasks, volumes, snapshots, servers, nextVolume, nextSnapshot, locks,
                   firstPublish>>

StagingPath == "/staging"

TargetPath == "/target"

\* the requests of the node service
NodeStageRequest(volumeId, staging, capability, context, volumeContext, secrets) ==
    [VolumeId |-> volumeId, StagingTargetPath |-> staging, VolumeCapability |-> capability,
     PublishContext |-> context, VolumeContext |-> volumeContext, Secrets |-> secrets]

NodeUnstageRequest(volumeId, staging) ==
    [VolumeId |-> volumeId, StagingTargetPath |-> staging]

NodePublishRequest(volumeId, staging, target, capability, context, volumeContext) ==
    [VolumeId |-> volumeId, StagingTargetPath |-> staging, TargetPath |-> target,
     VolumeCapability |-> capability, PublishContext |-> context,
     VolumeContext |-> volumeContext]

NodeUnpublishRequest(volumeId, target) == [VolumeId |-> volumeId, TargetPath |-> target]

NodePublishContext == [volumeName |-> "pvc-vol-1", volumeID |-> "vol-1",
                       volumeZone |-> ZoneFrPar1]

NodeVolumeContexts == {<<>>, [encrypted |-> "true"]}

NodeSecrets == [encryptionPassphrase |-> "secret"]

NodeStageRequests ==
    {NodeStageRequest(<<"vol-1">>, StagingPath, capability, NodePublishContext,
                      volumeContext, NodeSecrets) :
        capability \in {MountCapability, BlockCapability},
        volumeContext \in NodeVolumeContexts}
    \cup {NodeStageRequest(<<"vol-1">>, "", MountCapability, NodePublishContext, <<>>, <<>>),
          NodeStageRequest(<<"vol-1">>, StagingPath, MountCapability, NodePublishContext,
                           [encrypted |-> "true"], <<>>),
          NodeStageRequest(<<"vol-1">>, StagingPath, Nil, <<>>, <<>>, <<>>)}

NodeUnstageRequests ==
    {NodeUnstageRequest(<<"vol-1">>, StagingPath), NodeUnstageRequest(<<"">>, StagingPath)}

NodePublishRequests ==
    {NodePublishRequest(<<"vol-1">>, StagingPath, TargetPath, capability,
                        NodePublishContext, volumeContext) :
        capability \in {MountCapability, BlockCapability},
        volumeContext \in NodeVolumeContexts}
    \cup {NodePublishRequest(<<"vol-1">>, "", TargetPath, MountCapability,
                             NodePublishContext, <<>>)}

NodeInit ==
    /\ volumes = <<>>
    /\ snapshots = <<>>
    /\ servers = InitialServers
    /\ nextVolume = 1
    /\ nextSnapshot = 1
    /\ locks = {}
    /\ firstPublish = <<>>
    /\ tasks = [t \in Tasks |-> IdleTask]
    /\ \E n \in 0..MaxScratch : host = [InitialHost EXCEPT !.scratch = n]

NodeNext ==
    \/ \E t \in {1} :
        \/ \E req \in NodeStageRequests : NodeStageVolume(t, req)
        \/ \E req \in NodeUnstageRequests : NodeUnstageVolume(t, req)
        \/ \E req \in NodePublishRequests : NodePublishVolume(t, req)
        \/ \E target \in {TargetPath, ""} :
             NodeUnpublishVolume(t, NodeUnpublishRequest(<<"vol-1">>, target))
        \/ NodeGetInfo(t)
    \/ DeviceAppears("vol-1")
    \/ DeviceDisappears("vol-1")
    \/ PathCreated(StagingPath)
    \/ PathRemoved(StagingPath)

NodeSpec == NodeInit /\ [][NodeNext]_vars


\* the call of goroutine t repeats the call before it, which succeeded, with
\* the same arguments and the instance as that call left it
RepeatedAfterSuccess(t, kind) ==
    /\ Returned(t, kind)
    /\ tasks[t].prev # Nil
    /\ tasks[t].prev.code = OK
    /\ tasks[t].prev.after = tasks[t].before

\* C22: NodeStageVolume repeated with the same arguments after a successful
\* stage returns success and runs no command: it neither formats nor mounts
\* the device again, nor LUKS-formats or opens it again
C22_StageAgain ==
    \A t \in Tasks :
        RepeatedAfterSuccess(t, "NodeStageVolume") =>
            /\ tasks[t].resp.code = OK
            /\ tasks[t].calls = <<>>
            /\ tasks[t].after = tasks[t].before

\* an encrypted volume was staged on a filesystem, which LUKS-formatted,
\* opened, formatted and mounted it, and staged again
C22_Witness ==
    \E t \in Tasks :
        /\ RepeatedAfterSuccess(t, "NodeStageVolume")
        /\ tasks[t].req.VolumeCapability = MountCapability
        /\ encryptedKey \in DOMAIN tasks[t].req.VolumeContext
        /\ "vol-1" \in host.luks
        /\ "vol-1" \in host.mapped
        /\ StagingPath \in DOMAIN host.mounts
        /\ host.mounts[StagingPath].source = mappedPath("vol-1")


\* C23: NodeUnstageVolume called a second time after a successful unstage
\* returns success, the staging path or the device being gone or not
C23_UnstageAgain ==
    \A t \in Tasks :
        (/\ Returned(t, "NodeUnstageVolume")
         /\ tasks[t].prev # Nil
         /\ tasks[t].prev.code = OK) =>
            tasks[t].resp.code = OK


\* the target of the publish of goroutine t was mounted before the call,
\* and the call got as far as looking at it
PublishedOnMounted(t) ==
    /\ Returned(t, "NodePublishVolume")
    /\ TargetPath \in DOMAIN tasks[t].before.mounts
    /\ tasks[t].req.StagingTargetPath # ""
    /\ "vol-1" \in tasks[t].before.devices

PublishedAgainAsBlock ==
    \E t \in Tasks :
        /\ PublishedOnMounted(t)
        /\ tasks[t].before.mounts[TargetPath].block
        /\ tasks[t].req.VolumeCapability = BlockCapability
        /\ tasks[t].resp.code = OK


\* C25: NodeGetInfo reports max_volumes_per_node = MaxVolumesPerNode - 1 -
\* reservedScratch, reservedScratch the number of scratch volumes in the
\* metadata of the instance
C25_MaxVolumesPerNode ==
    \A t \in Tasks :
        Returned(t, "NodeGetInfo") =>
            tasks[t].resp.MaxVolumesPerNode =
                MaxVolumesPerNode - 1 - attachedScratchVolumes(host)


\* ------------------------------------------------------------------------
\* FullSpec: goroutines publish different volumes to srv-1, the server with
\* one free slot
\* ------------------------------------------------------------------------
FullNext ==
    \E t \in Tasks :
        \/ \E name \in {"foo", "bar"} : ProvisionBoth(t, name)
        \/ StepGetVolumeByName(t)
        \/ StepCreateVolume(t)
        \/ \E id \in VolumeUUIDs :
             BeginControllerPublishVolume(t,
                 PublishRequest(<<id>>, <<"srv-1">>, MountCapability))
        \/ PublishLock(t)
        \/ PublishGetVolume(t)
        \/ PublishGetServer(t)
        \/ PublishAttachVolume(t)

FullSpec == Init /\ [][FullNext]_vars

\* ControllerPublishVolume of an unattached volume returned without an
\* attachment while the server holds MaxVolumesPerNode volumes
CouldNotAttach(t) ==
    /\ Published(t)
    /\ AttachedTo(tasks[t].volumeResp) = <<>>
    /\ tasks[t].resp.code # OK
    /\ Cardinality(DOMAIN servers[tasks[t].server.ID].Volumes) = MaxVolumesPerNode

\* C31: whatever the interleaving of ControllerPublishVolume calls that
\* attach different volumes to one server, a call that cannot attach because
\* the server holds MaxVolumesPerNode volumes returns ResourceExhausted, also
\* when the server became full after the call's own capacity check
C31_FullIsResourceExhausted ==
    \A t \in Tasks : CouldNotAttach(t) => tasks[t].resp.code = ResourceExhausted


\* ------------------------------------------------------------------------
\* The SDK-backed client: GetVolumeByName and CreateVolume
\* ------------------------------------------------------------------------
\* the status of a volume the Block Service has not finished creating
VolumeStatusCreating == "creating"

\* the volume names the name filter of s.block.ListVolumes lets through for
\* a value: the filter of the service keeps the names that contain the value
ListedNames(name) == IF name = "foo" THEN {"foo", "foo-2"} ELSE {name}

\* Scaleway.GetVolumeByName, the loop over volumesResp.Volumes: [err, volume]
RECURSIVE getVolumeByNameLoop(_, _, _)
getVolumeByNameLoop(list, name, size) ==
    IF list = <<>> THEN [err |-> ErrVolumeNotFound, volume |-> Nil]
    ELSE IF Head(list).Size # size THEN [err |-> ErrVolumeDifferentSize, volume |-> Nil]
    ELSE IF Head(list).Name = name THEN [err |-> NoError, volume |-> Head(list)]
    ELSE getVolumeByNameLoop(Tail(list), name, size)

\* Scaleway.GetVolumeByName: the set of [err, volume]; the Block Service
\* lists the volumes of the zone that pass the name filter, in some order,
\* or fails
ScalewayGetVolumeByName(vols, name, size, zone) ==
    LET z == zoneOrDefault(zone)
        listed == {id \in DOMAIN vols :
                      vols[id].Zone = z /\ vols[id].Name \in ListedNames(name)}
    IN  {[err |-> OtherError, volume |-> Nil]} \cup
        {getVolumeByNameLoop([i \in DOMAIN order |-> vols[order[i]]], name, size) :
            order \in SetToSeqs(listed)}

\* s.block.WaitForVolume after s.block.CreateVolume: the statuses the new
\* volume may be left in, and whether the wait gave an error (a timeout)
WaitForVolumeOutcomes ==
    {[err |-> OtherError, status |-> VolumeStatusCreating],
     [err |-> NoError, status |-> VolumeStatusError],
     [err |-> NoError, status |-> VolumeStatusAvailable]}

\* Scaleway.CreateVolume with id the ID the Block Service gives the volume:
\* the set of [err, volume, volumes, api], api the calls of the Block Service
ScalewayCreateVolume(vols, snaps, id, name, snapshotID, size, perfIOPS, zone) ==
    LET z == zoneOrDefault(zone)
        created == [ID |-> id, Name |-> name, Zone |-> z,
                    Status |-> VolumeStatusCreating, References |-> <<>>,
                    PerfIops |-> IF perfIOPS = <<>> THEN <<5000>> ELSE perfIOPS,
                    ParentSnapshotID |-> IF snapshotID # "" THEN <<snapshotID>> ELSE <<>>,
                    Size |-> createdSize(snaps, snapshotID, size)]
    IN  IF snapshotID # "" /\ ~isValidUUID(snapshotID)
        THEN {[err |-> ResourceNotFoundError, volume |-> Nil, volumes |-> vols,
               api |-> <<>>]}
        ELSE {[err |-> OtherError, volume |-> Nil, volumes |-> vols,
               api |-> <<"block.CreateVolume">>]} \cup
             IF snapshotID # "" /\ ~(snapshotID \in DOMAIN snaps /\ snaps[snapshotID].Zone = z)
             THEN {[err |-> ResourceNotFoundError, volume |-> Nil, volumes |-> vols,
                    api |-> <<"block.CreateVolume">>]}
             ELSE {[err |-> IF w.err # NoError \/ w.status # VolumeStatusAvailable
                            THEN OtherError ELSE NoError,
                    volume |-> IF w.err # NoError \/ w.status # VolumeStatusAvailable
                               THEN Nil ELSE created,
                    volumes |-> MapPut(vols, id, [created EXCEPT !.Status = w.status]),
                    api |-> <<"block.CreateVolume", "block.WaitForVolume">>] :
                   w \in WaitForVolumeOutcomes}

\* getOrCreateVolume, one turn of the first loop, d.scaleway the SDK-backed
\* client; the record keeps what GetVolumeByName returned (after)
ClientStepGetVolumeByName(t) ==
    /\ tasks[t].pc = "GetVolumeByName"
    /\ \E r \in ScalewayGetVolumeByName(volumes, tasks[t].name, tasks[t].size,
                                        tasks[t].zones[tasks[t].i]) :
         LET tk == [Called(tasks[t], "GetVolumeByName") EXCEPT !.after = r]
             last == tk.i = Len(tk.zones)
         IN  Proceed(t,
                 IF last THEN [tk EXCEPT !.pc = "CreateVolume", !.i = 1]
                 ELSE [tk EXCEPT !.i = @ + 1],
                 IF r.err # NoError /\ r.err # ErrVolumeNotFound
                 THEN ErrorResponse(codeFromScalewayError(r.err))
                 ELSE IF r.volume # Nil THEN createVolumeResponse(tk, r.volume)
                 ELSE Nil)
    /\ UNCHANGED <<host, firstPublish, volumes, snapshots, servers, nextVolume, nextSnapshot>>

\* getOrCreateVolume, one turn of the second loop, d.scaleway the SDK-backed
\* client; the record keeps the IDs of the volumes the Block Service held
\* when the loop began (before)
ClientStepCreateVolume(t) ==
    /\ tasks[t].pc = "CreateVolume"
    /\ nextVolume <= MaxVolumes
    /\ \E r \in ScalewayCreateVolume(volumes, snapshots, NewUUID("vol-", nextVolume),
                                     tasks[t].name, tasks[t].snapshotID, tasks[t].size,
                                     tasks[t].perfIOPS, tasks[t].zones[tasks[t].i]) :
         LET tk == [tasks[t] EXCEPT !.calls = @ \o <<"CreateVolume">> \o r.api,
                                    !.before = IF tasks[t].i = 1 THEN DOMAIN volumes ELSE @]
             errs == Append(tk.errs, r.err)
         IN  /\ volumes' = r.volumes
             /\ nextVolume' = IF r.volumes # volumes THEN nextVolume + 1 ELSE nextVolume
             /\ Proceed(t, [tk EXCEPT !.i = @ + 1, !.errs = errs],
                    IF r.err = NoError THEN createVolumeResponse(tk, r.volume)
                    ELSE IF tk.i = Len(tk.zones)
                    THEN ErrorResponse(codeFromJoinedErrors(errs))
                    ELSE Nil)
    /\ UNCHANGED <<host, firstPublish, snapshots, servers, nextSnapshot>>

\* ------------------------------------------------------------------------
\* CreateSpec: one goroutine creates volumes through the SDK-backed client;
\* the Block Service starts empty or with volumes of other RPCs
\* ------------------------------------------------------------------------
\* a volume of that name and size in fr-par-1
NamedVolume(id, name, size) ==
    [ServiceVolume(id, ZoneFrPar1, <<>>) EXCEPT !.Name = name, !.Size = size]

CreateContents ==
    {<<>>} \cup
    {MapPut(<<>>, "vol-1", NamedVolume("vol-1", name, size)) :
        name \in {"foo", "foo-2"}, size \in {GB, 2 * GB}}

CreateInit ==
    /\ volumes \in CreateContents
    /\ snapshots = <<>>
    /\ servers = InitialServers
    /\ nextVolume = Cardinality(DOMAIN volumes) + 1
    /\ nextSnapshot = 1
    /\ locks = {}
    /\ tasks = [t \in Tasks |-> IdleTask]
    /\ firstPublish = <<>>
    /\ host = InitialHost

CreateRequests ==
    {CreateVolumeRequest(name, capacity, Nil, topology) :
        name \in {"foo", "foo-2"},
        capacity \in {Nil, Required(2 * GB)},
        topology \in {Nil, Topology(<<ZoneFrPar1, ZoneFrPar2>>, <<>>)}}

CreateNext ==
    \E t \in {1} :
        \/ \E req \in CreateRequests : BeginCreateVolume(t, req)
        \/ ClientStepGetVolumeByName(t)
        \/ ClientStepCreateVolume(t)

CreateSpec == CreateInit /\ [][CreateNext]_vars

\* the volumes the Block Service holds that the CreateVolume of t created
createdBy(t) == DOMAIN volumes \ tasks[t].before

\* C32: one CreateVolume RPC creates at most one volume in the Block
\* Service, also when the creation or the wait for status available fails
\* in the first candidate zone and further zones are tried, and an RPC that
\* returns an error leaves no created volume behind
C32_AtMostOneVolume ==
    \A t \in Tasks :
        (Returned(t, "CreateVolume") /\ HasCalled(tasks[t], "CreateVolume"))
        => /\ Cardinality(createdBy(t)) <= 1
           /\ tasks[t].resp.code # OK => createdBy(t) = {}


\* ------------------------------------------------------------------------
\* HoldSpec: goroutines publish, unpublish, expand and snapshot one volume
\* that exists, with requests that succeed and requests that fail after the
\* lock was taken
\* ------------------------------------------------------------------------
HoldInit ==
    /\ volumes = FakeCreateVolume(<<>>, <<>>, "vol-1", "foo", "", GB, <<>>, NoZone).volumes
    /\ snapshots = <<>>
    /\ servers = InitialServers
    /\ nextVolume = 2
    /\ nextSnapshot = 1
    /\ locks = {}
    /\ tasks = [t \in Tasks |-> IdleTask]
    /\ firstPublish = <<>>
    /\ host = InitialHost

\* the handler of t takes the lock of its volume
LockStep(t) ==
    \/ PublishLock(t)
    \/ UnpublishLock(t)
    \/ ExpandLock(t)
    \/ SnapshotLock(t)

\* the handler of t, holding the lock of its volume, moves on
HeldStep(t) ==
    \/ PublishGetVolume(t)
    \/ PublishGetServer(t)
    \/ PublishAttachVolume(t)
    \/ UnpublishGetVolume(t)
    \/ UnpublishGetServer(t)
    \/ UnpublishDetachVolume(t)
    \/ ExpandGetVolume(t)
    \/ ExpandResizeVolume(t)
    \/ SnapshotGetSnapshotByName(t)
    \/ SnapshotCreateSnapshot(t)
    \/ SnapshotWaitForSnapshot(t)

\* the gRPC server hands t a request
HoldBegin(t) ==
    \/ \E node \in {<<"srv-2">>, <<"srv-9">>}, capability \in {MountCapability, Nil} :
         BeginControllerPublishVolume(t, PublishRequest(<<"vol-1">>, node, capability))
    \/ \E node \in {<<"srv-2">>, <<"srv-9">>} :
         BeginControllerUnpublishVolume(t, UnpublishRequest(<<"vol-1">>, node))
    \/ \E capacity \in {Required(2 * GB), [required |-> 2 * GB, limit |-> GB]} :
         BeginControllerExpandVolume(t, ExpandRequest(<<"vol-1">>, capacity, Nil))
    \/ \E name \in {"snap", ""} :
         BeginCreateSnapshot(t, CreateSnapshotRequest(<<"vol-1">>, name))

HoldNext == \E t \in Tasks : HoldBegin(t) \/ LockStep(t) \/ HeldStep(t)

HoldSpec == HoldInit /\ [][HoldNext]_vars

\* the goroutine of a handler keeps running, and a goroutine that waits in
\* Lock gets the mutex at one of its releases
HoldFairSpec ==
    HoldSpec /\ \A t \in Tasks : WF_vars(HeldStep(t)) /\ SF_vars(LockStep(t))

\* goroutine t waits for, or is about to take, the lock of its volume
WaitsForLock(t) == tasks[t].kind \in LockingKinds /\ tasks[t].pc = "Lock"

\* every lock that is taken is held by a handler that has not returned
HeldByRunning ==
    \A name \in locks : \E t \in Tasks : Holding(tasks[t]) /\ lockName(tasks[t]) = name

\* C33: every controller RPC that takes the per-volume lock releases it on
\* every return path, error returns included, so an operation that waits
\* for the lock of a volume takes it in the end: no RPC is blocked for ever
\* by one that returned
C33_LockReleased ==
    /\ []HeldByRunning
    /\ \A t \in Tasks : WaitsForLock(t) ~> ~WaitsForLock(t)

\* C33, its case: an RPC that held the lock of the volume returned an error
\* and an RPC that began while it ran now holds the lock
C33_Witness ==
    \E t, u \in Tasks :
        /\ t # u
        /\ tasks[t].kind \in LockingKinds /\ tasks[t].pc = "done"
        /\ tasks[t].calls # <<>> /\ tasks[t].resp.code # OK
        /\ Holding(tasks[u]) /\ tasks[u].volumeID = tasks[t].volumeID
        /\ t \in tasks[u].racing


\* the volumes of the zone whose name is exactly name
exactlyNamed(vols, name, zone) ==
    {id \in DOMAIN vols : vols[id].Name = name /\ vols[id].Zone = zoneOrDefault(zone)}

\* what GetVolumeByName(name, size, zone) returned (r) is decided by the
\* exactly-named volumes of the zone alone (a failure of the listing aside)
DecidedByExactName(r, vols, name, size, zone) ==
    LET exact == exactlyNamed(vols, name, zone)
    IN  \/ r.err = OtherError
        \/ r.err = ErrVolumeNotFound /\ exact = {}
        \/ r.err = ErrVolumeDifferentSize /\ \E id \in exact : vols[id].Size # size
        \/ r.err = NoError /\ r.volume.ID \in exact /\ r.volume = vols[r.volume.ID]
                           /\ r.volume.Size = size

\* C34: GetVolumeByName(name, size, zone) returns the volume of that zone
\* whose name equals name exactly, and fails with ErrVolumeDifferentSize
\* only if that exactly-named volume has a different size; volumes of the
\* name listing whose name is not exactly name do not affect the result
C34_ExactNameDecides ==
    [][\A t \in Tasks :
         (/\ tasks[t].pc = "GetVolumeByName"
          /\ tasks'[t].calls = Append(tasks[t].calls, "GetVolumeByName"))
         => DecidedByExactName(tasks'[t].after, volumes, tasks[t].name, tasks[t].size,
                               tasks[t].zones[tasks[t].i])]_vars


\* ------------------------------------------------------------------------
\* The SDK-backed client, the operations that take a resource ID
\* ------------------------------------------------------------------------
\* Scaleway.ResizeVolume: the set of [err, volumes, api]; the Block Service
\* refuses to shrink a volume
ScalewayResizeVolume(vols, volumeID, zone, size) ==
    LET update == <<"block.UpdateVolume">>
        resized == [vols EXCEPT ![volumeID].Size = size]
    IN  IF ~isValidUUID(volumeID)
        THEN {[err |-> ResourceNotFoundError, volumes |-> vols, api |-> <<>>]}
        ELSE {[err |-> OtherError, volumes |-> vols, api |-> update]} \cup
             IF ~(volumeID \in DOMAIN vols /\ vols[volumeID].Zone = zoneOrDefault(zone))
             THEN {[err |-> ResourceNotFoundError, volumes |-> vols, api |-> update]}
             ELSE IF size < vols[volumeID].Size THEN {}
             ELSE {[err |-> e, volumes |-> resized,
                    api |-> update \o <<"block.WaitForVolume">>] :
                      e \in {NoError, OtherError}}

\* Scaleway.GetSnapshot: the set of [err, snapshot, api]
ScalewayGetSnapshot(snaps, snapshotID, zone) ==
    LET called == <<"block.GetSnapshot">> IN
    IF ~isValidUUID(snapshotID)
    THEN {[err |-> ResourceNotFoundError, snapshot |-> Nil, api |-> <<>>]}
    ELSE {[err |-> OtherError, snapshot |-> Nil, api |-> called]} \cup
         IF snapshotID \in DOMAIN snaps /\ snaps[snapshotID].Zone = zoneOrDefault(zone)
         THEN {[err |-> NoError, snapshot |-> snaps[snapshotID], api |-> called]}
         ELSE {[err |-> ResourceNotFoundError, snapshot |-> Nil, api |-> called]}

\* Scaleway.DeleteSnapshot: the set of [err, snapshots, api]
ScalewayDeleteSnapshot(snaps, snapshotID, zone) ==
    LET called == <<"block.DeleteSnapshot">> IN
    IF ~isValidUUID(snapshotID)
    THEN {[err |-> ResourceNotFoundError, snapshots |-> snaps, api |-> <<>>]}
    ELSE {[err |-> OtherError, snapshots |-> snaps, api |-> called]} \cup
         IF snapshotID \in DOMAIN snaps /\ snaps[snapshotID].Zone = zoneOrDefault(zone)
         THEN {[err |-> NoError, snapshots |-> MapDelete(snaps, snapshotID), api |-> called]}
         ELSE {[err |-> ResourceNotFoundError, snapshots |-> snaps, api |-> called]}

\* the snapshots of a volume in the order the Block Service lists them
listedSnapshotsOf(snaps, sourceVolumeID, zone) ==
    LET ids == {id \in DOMAIN snaps :
                   /\ snaps[id].Zone = zoneOrDefault(zone)
                   /\ snaps[id].ParentVolume # Nil
                   /\ snaps[id].ParentVolume.ID = sourceVolumeID}
        order == CHOOSE s \in SetToSeqs(ids) :
                     \A i, j \in DOMAIN s :
                         i < j => \E a, b \in 1..MaxSnapshots :
                                     /\ a < b
                                     /\ s[i] = NewUUID("snap-", a)
                                     /\ s[j] = NewUUID("snap-", b)
    IN  [i \in DOMAIN order |-> snaps[order[i]]]

\* Scaleway.ListSnapshotsBySourceVolume: the set of [err, snapshots, next, api]
ScalewayListSnapshotsBySourceVolume(snaps, start, max, sourceVolumeID, sourceVolumeZone) ==
    LET called == <<"block.ListSnapshots">>
        r == paginatedList(listedSnapshotsOf(snaps, sourceVolumeID, sourceVolumeZone),
                           start, max)
    IN  IF ~isValidUUID(sourceVolumeID)
        THEN {[err |-> NoError, snapshots |-> <<>>, next |-> "", api |-> <<>>]}
        ELSE {[err |-> OtherError, snapshots |-> <<>>, next |-> "", api |-> called],
              [err |-> NoError, snapshots |-> r.elements, next |-> r.next, api |-> called]}

\* the operations of the cloud client that take the ID of a resource
ClientOperations ==
    {"GetVolume", "DeleteVolume", "ResizeVolume", "AttachVolume", "DetachVolume",
     "CreateSnapshot", "WaitForSnapshot", "ListSnapshotsBySourceVolume", "GetServer",
     "GetSnapshot", "DeleteSnapshot"}

\* an operation of the SDK-backed client on the resource id (and, for
\* AttachVolume, the server serverID) in the default zone: the set of
\* [err, api, volumes, snapshots, servers]
scalewayOperation(op, id, serverID) ==
    LET outcome(r, vols, snaps, srvs) ==
            [err |-> r.err, api |-> r.api, volumes |-> vols, snapshots |-> snaps,
             servers |-> srvs]
    IN  CASE op = "GetVolume" ->
               {outcome(r, volumes, snapshots, servers) :
                   r \in ScalewayGetVolume(volumes, id, NoZone)}
          [] op = "DeleteVolume" ->
               {outcome(r, r.volumes, snapshots, servers) :
                   r \in ScalewayDeleteVolume(volumes, id, NoZone)}
          [] op = "ResizeVolume" ->
               {outcome(r, r.volumes, snapshots, servers) :
                   r \in ScalewayResizeVolume(volumes, id, NoZone, 2 * GB)}
          [] op = "AttachVolume" ->
               {outcome(r, r.volumes, snapshots, r.servers) :
                   r \in ScalewayAttachVolume(volumes, servers, serverID, id, NoZone)}
          [] op = "DetachVolume" ->
               {outcome(r, r.volumes, snapshots, r.servers) :
                   r \in ScalewayDetachVolume(volumes, servers, id, NoZone)}
          [] op = "CreateSnapshot" ->
               {outcome(r, volumes, r.snapshots, servers) :
                   r \in ScalewayCreateSnapshot(volumes, snapshots,
                                                NewUUID("snap-", nextSnapshot), "snap",
                                                id, NoZone)}
          [] op = "WaitForSnapshot" ->
               {outcome(r, volumes, r.snapshots, servers) :
                   r \in ScalewayWaitForSnapshot(snapshots, id, NoZone)}
          [] op = "ListSnapshotsBySourceVolume" ->
               {outcome(r, volumes, snapshots, servers) :
                   r \in ScalewayListSnapshotsBySourceVolume(snapshots, 0, 0, id, NoZone)}
          [] op = "GetServer" ->
               {outcome(r, volumes, snapshots, servers) :
                   r \in ScalewayGetServer(servers, id, NoZone)}
          [] op = "GetSnapshot" ->
               {outcome(r, volumes, snapshots, servers) :
                   r \in ScalewayGetSnapshot(snapshots, id, NoZone)}
          [] op = "DeleteSnapshot" ->
               {outcome(r, volumes, r.snapshots, servers) :
                   r \in ScalewayDeleteSnapshot(snapshots, id, NoZone)}

\* goroutine t calls an operation of the SDK-backed client and gets its
\* answer; the record keeps the arguments (volumeID, nodeID), the calls of
\* the services (calls) and the error (errs)
ClientCall(t, op, id, serverID) ==
    /\ ~InFlight(tasks[t])
    /\ op = "CreateSnapshot" => nextSnapshot <= MaxSnapshots
    /\ \E r \in scalewayOperation(op, id, serverID) :
         /\ volumes' = r.volumes
         /\ snapshots' = r.snapshots
         /\ servers' = r.servers
         /\ nextSnapshot' = IF r.snapshots # snapshots /\ op = "CreateSnapshot"
                            THEN nextSnapshot + 1 ELSE nextSnapshot
         /\ tasks' = [tasks EXCEPT ![t] =
                [IdleTask EXCEPT !.kind = op, !.pc = "done", !.volumeID = id,
                                 !.nodeID = serverID, !.calls = r.api,
                                 !.errs = <<r.err>>,
                                 !.resp = IF r.err = NoError THEN EmptyResponse
                                          ELSE ErrorResponse(codeFromScalewayError(r.err))]]
    /\ UNCHANGED <<host, firstPublish, nextVolume, locks>>

\* ------------------------------------------------------------------------
\* OperationSpec: one goroutine calls the operations of the SDK-backed
\* client with IDs that are UUIDs and IDs that are not; the Block Service
\* holds one volume
\* ------------------------------------------------------------------------
\* IDs that uuid.Parse rejects
MalformedIDs == {"pvc-foo", ""}

OperationIDs == {"vol-1", "snap-1", "srv-2"} \cup MalformedIDs

OperationNext ==
    \E t \in {1} :
        \/ \E op \in ClientOperations \ {"AttachVolume"}, id \in OperationIDs :
             ClientCall(t, op, id, "")
        \/ \E id \in {"vol-1", "pvc-foo"}, serverID \in {"srv-2", "pvc-foo"} :
             ClientCall(t, "AttachVolume", id, serverID)

OperationSpec == SnapshotInit /\ [][OperationNext]_vars

\* the resource IDs an operation of the cloud client was given
idsGiven(tk) == IF tk.kind = "AttachVolume" THEN {tk.volumeID, tk.nodeID} ELSE {tk.volumeID}

\* C35: every cloud-client operation that takes a resource ID (get, delete,
\* resize, attach, detach, create-snapshot, wait-for-snapshot,
\* list-snapshots-by-source-volume, get-server) returns a NotFound error and
\* makes no network call when that ID is not a well-formed UUID
C35_MalformedIsNotFound ==
    \A t \in Tasks :
        (/\ tasks[t].kind \in ClientOperations /\ tasks[t].pc = "done"
         /\ idsGiven(tasks[t]) \cap MalformedIDs # {})
        => /\ tasks[t].errs = <<ResourceNotFoundError>>
           /\ tasks[t].calls = <<>>


\* the volume a NodeStageVolume request stages
stagedVolume(tk) == tk.req.PublishContext["volumeID"]

\* NodeStageVolume returned and ran that command
StageRan(t, command) ==
    Returned(t, "NodeStageVolume") /\ command \in Range(tasks[t].calls)

\* C36: EncryptAndOpenDevice runs luksFormat only on a device that is no
\* LUKS device and whose mapper is not open: a device that carries a LUKS
\* header is only opened, never formatted again, across any sequence of
\* stage and unstage calls
C36_FormatOnce ==
    \A t \in Tasks :
        StageRan(t, "luksFormat")
        => /\ stagedVolume(tasks[t]) \notin tasks[t].before.luks
           /\ stagedVolume(tasks[t]) \notin tasks[t].before.mapped

\* C36, its case: a device that was formatted, opened and closed by earlier
\* calls is staged again and is opened without being formatted
C36_Witness ==
    \E t \in Tasks :
        /\ StageRan(t, "luksOpen") /\ ~StageRan(t, "luksFormat")
        /\ tasks[t].resp.code = OK
        /\ stagedVolume(tasks[t]) \in tasks[t].before.luks
        /\ stagedVolume(tasks[t]) \notin tasks[t].before.mapped


\* ------------------------------------------------------------------------
\* ListSnapshots over the Fake
\* ------------------------------------------------------------------------
\* sort.Strings(maps.Keys(m)) for the snapshots of the Fake
sortedSnapshotKeys(snaps) ==
    CHOOSE s \in SetToSeqs(DOMAIN snaps) :
        \A i, j \in DOMAIN s :
            i < j => \E a, b \in 1..MaxSnapshots :
                        a < b /\ s[i] = NewUUID("snap-", a) /\ s[j] = NewUUID("snap-", b)

\* mapPaginatedRange, the loop over keys[start:] from index i on, kept the
\* keys the filter lets through: [list, next]
RECURSIVE mapPaginatedLoop(_, _, _, _, _, _, _)
mapPaginatedLoop(mp, keys, kept, start, max, i, list) ==
    IF start + i >= Len(keys) THEN [list |-> list, next |-> ""]
    ELSE IF max # 0 /\ Len(list) = max THEN [list |-> list, next |-> Itoa(start + i)]
    ELSE mapPaginatedLoop(mp, keys, kept, start, max, i + 1,
                          IF keys[start + i + 1] \in kept
                          THEN Append(list, mp[keys[start + i + 1]]) ELSE list)

\* mapPaginatedRange: [list, next]
mapPaginatedRange(mp, keys, kept, start, max) ==
    mapPaginatedLoop(mp, keys, kept, start, max, 0, <<>>)

\* Fake.ListSnapshots: [err, snapshots, next]
FakeListSnapshots(snaps, start, max) ==
    LET r == mapPaginatedRange(snaps, sortedSnapshotKeys(snaps), DOMAIN snaps, start, max)
    IN  [err |-> NoError, snapshots |-> r.list, next |-> r.next]

\* Fake.ListSnapshotsBySourceVolume: [err, snapshots, next]; the zone of the
\* snapshot is compared with the zone as given
FakeListSnapshotsBySourceVolume(snaps, start, max, sourceVolumeID, sourceVolumeZone) ==
    LET kept == {id \in DOMAIN snaps :
                    /\ snaps[id].ParentVolume # Nil
                    /\ snaps[id].ParentVolume.ID = sourceVolumeID
                    /\ snaps[id].Zone = sourceVolumeZone}
        r == mapPaginatedRange(snaps, sortedSnapshotKeys(snaps), kept, start, max)
    IN  [err |-> NoError, snapshots |-> r.list, next |-> r.next]

\* ListSnapshots, the switch: [code, snapshots, next, called]
listSnapshots(req, start) ==
    LET fail(code, called) ==
            [code |-> code, snapshots |-> <<>>, next |-> "", called |-> called]
    IN  IF req.SnapshotId # <<"">>
        THEN LET x == ExtractIDAndZone(req.SnapshotId)
                 r == FakeGetSnapshot(snapshots, x.id, x.zone)
             IN  IF x.err # NoError THEN fail(InvalidArgument, <<>>)
                 ELSE IF r.err # NoError /\ codeFromScalewayError(r.err) # NotFound
                 THEN fail(codeFromScalewayError(r.err), <<"GetSnapshot">>)
                 ELSE [code |-> OK,
                       snapshots |-> IF r.snapshot # Nil THEN <<r.snapshot>> ELSE <<>>,
                       next |-> "", called |-> <<"GetSnapshot">>]
        ELSE IF req.SourceVolumeId # <<"">>
        THEN LET x == ExtractIDAndZone(req.SourceVolumeId)
                 r == FakeListSnapshotsBySourceVolume(snapshots, start, req.MaxEntries,
                                                      x.id, x.zone)
             IN  IF x.err # NoError THEN fail(InvalidArgument, <<>>)
                 ELSE IF r.err # NoError
                 THEN fail(codeFromScalewayError(r.err), <<"ListSnapshotsBySourceVolume">>)
                 ELSE [code |-> OK, snapshots |-> r.snapshots, next |-> r.next,
                       called |-> <<"ListSnapshotsBySourceVolume">>]
        ELSE LET r == FakeListSnapshots(snapshots, start, req.MaxEntries)
             IN  IF r.err # NoError THEN fail(codeFromScalewayError(r.err), <<"ListSnapshots">>)
                 ELSE [code |-> OK, snapshots |-> r.snapshots, next |-> r.next,
                       called |-> <<"ListSnapshots">>]

\* ListSnapshots, d.scaleway the Fake
ListSnapshots(t, req) ==
    /\ ~InFlight(tasks[t])
    /\ LET start == parseStartingToken(req.StartingToken)
           r == listSnapshots(req, start.value)
           early == start.err # NoError \/ req.MaxEntries < 0
           tk == [Start(t, "ListSnapshots", req) EXCEPT
                     !.calls = IF early THEN <<>> ELSE r.called]
       IN  Return(t, tk,
               IF start.err # NoError THEN ErrorResponse(Aborted)
               ELSE IF req.MaxEntries < 0 THEN ErrorResponse(InvalidArgument)
               ELSE IF r.code # OK THEN ErrorResponse(r.code)
               ELSE [EmptyResponse EXCEPT
                        !.Entries = [i \in DOMAIN r.snapshots |->
                                        [Snapshot |-> csiSnapshot(r.snapshots[i])]],
                        !.NextToken = r.next],
               TRUE)
    /\ UNCHANGED <<host, firstPublish, volumes, snapshots, servers, nextVolume, nextSnapshot>>

\* ------------------------------------------------------------------------
\* SourceSpec: one goroutine creates a volume, snapshots it, deletes it,
\* lists the snapshots and creates a volume from a snapshot
\* ------------------------------------------------------------------------
ListSnapshotsRequest(snapshotId, sourceVolumeId, startingToken, maxEntries) ==
    [EmptyRequest EXCEPT !.SnapshotId = snapshotId, !.SourceVolumeId = sourceVolumeId,
                         !.StartingToken = startingToken, !.MaxEntries = maxEntries]

SourceListRequests ==
    {ListSnapshotsRequest(<<"">>, <<"">>, token, n) : token \in {"", "1", "x"}, n \in {0, 1}}
    \cup {ListSnapshotsRequest(id, <<"">>, "", 0) :
             id \in {<<"snap-1">>, <<ZoneFrPar1, "snap-2">>, <<"a", "b", "c">>}}
    \cup {ListSnapshotsRequest(<<"">>, id, "", 0) :
             id \in {<<"vol-1">>, <<ZoneFrPar1, "vol-1">>}}

SourceNext ==
    \E t \in {1} :
        \/ BeginCreateVolume(t, CreateVolumeRequest("foo", Nil, Nil, Nil))
        \/ \E id \in {<<"snap-1">>, <<ZoneFrPar1, "snap-2">>} :
             BeginCreateVolume(t, CreateVolumeRequest("bar", Nil, FromSnapshot(id), Nil))
        \/ StepGetVolumeByName(t)
        \/ StepCreateVolume(t)
        \/ \E name \in {"snap", "other"} :
             BeginCreateSnapshot(t, CreateSnapshotRequest(<<"vol-1">>, name))
        \/ SnapshotLock(t)
        \/ SnapshotGetSnapshotByName(t)
        \/ SnapshotCreateSnapshot(t)
        \/ SnapshotWaitForSnapshot(t)
        \/ \E id \in VolumeUUIDs : BeginDeleteVolume(t, DeleteVolumeRequest(<<id>>))
        \/ DeleteVolumeCall(t)
        \/ \E req \in SourceListRequests : ListSnapshots(t, req)

SourceSpec == Init /\ [][SourceNext]_vars

\* the snapshots whose source volume is gone
orphans == {id \in DOMAIN snapshots : snapshots[id].ParentVolume.ID \notin DOMAIN volumes}

\* the snapshots a ListSnapshots response holds
entrySnapshots(resp) == {resp.Entries[i].Snapshot : i \in DOMAIN resp.Entries}

\* ListSnapshots for every snapshot, in one page, returned
ListedAll(t) ==
    /\ Returned(t, "ListSnapshots") /\ tasks[t].resp.code = OK
    /\ tasks[t].req = ListSnapshotsRequest(<<"">>, <<"">>, "", 0)

\* CreateVolume from a snapshot whose source volume is gone returned
CreatedFromOrphan(t) ==
    /\ Returned(t, "CreateVolume")
    /\ tasks[t].snapshotID \in orphans

\* C37: DeleteVolume of the source volume of a snapshot leaves the snapshot
\* untouched: the snapshot still exists, ListSnapshots still returns it and
\* it can still be the content source of a CreateVolume
C37_SnapshotOutlivesVolume ==
    /\ [][\A t \in Tasks :
            (tasks[t].kind = "DeleteVolume" /\ tasks'[t].kind = "DeleteVolume"
             /\ tasks[t].pc # "done" /\ tasks'[t].pc = "done")
            => snapshots' = snapshots]_vars
    /\ [](\A t \in Tasks :
            /\ ListedAll(t) =>
                 \A id \in orphans : csiSnapshot(snapshots[id]) \in entrySnapshots(tasks[t].resp)
            /\ CreatedFromOrphan(t) =>
                 /\ tasks[t].resp.code = OK
                 /\ HasCalled(tasks[t], "CreateVolume") =>
                        tasks[t].resp.Volume.ContentSource =
                            [SnapshotId |->
                                csiSnapshot(snapshots[tasks[t].snapshotID]).SnapshotId])

\* C37, its case: the source volume of a snapshot was deleted and a
\* CreateVolume from the snapshot succeeded
C37_Witness ==
    \E t \in Tasks :
        /\ CreatedFromOrphan(t) /\ tasks[t].resp.code = OK
        /\ HasCalled(tasks[t], "CreateVolume")


\* the volume IDs in the slots of server s
slotsOf(s) == {servers[s].Volumes[k] : k \in DOMAIN servers[s].Volumes}

\* volume id exists, is in_use and holds an instance_server reference to s
attachedTo(id, s) ==
    /\ id \in DOMAIN volumes
    /\ volumes[id].Status = VolumeStatusInUse
    /\ \E i \in DOMAIN volumes[id].References :
         /\ volumes[id].References[i].ProductResourceType = InstanceServerProductResourceType
         /\ volumes[id].References[i].ProductResourceID = s

\* C38: in the Fake, after any sequence of CreateVolume, AttachVolume,
\* DetachVolume and DeleteVolume calls, a volume ID occupies a slot of a
\* server's Volumes map if and only if that volume exists with status in_use
\* and an instance_server reference to that server, and no server holds more
\* than MaxVolumesPerNode slots (the volumes the servers were given at
\* construction are left aside)
C38_SlotsMatchReferences ==
    \A s \in DOMAIN servers :
        /\ \A id \in VolumeUUIDs : id \in slotsOf(s) <=> attachedTo(id, s)
        /\ Cardinality(DOMAIN servers[s].Volumes) <= MaxVolumesPerNode


\* the zones the segments of a list name: the values under the zone key
\* that are zones
zonesNamed(list) ==
    {list[i].value : i \in {j \in DOMAIN list :
        list[j].key = ZoneTopologyKey /\ list[j].value \in Zones}}

\* the call of goroutine t has a valid preferred zone that is not among the
\* requisite zones
PreferredOutsideRequisite(t) ==
    /\ Returned(t, "chooseZones")
    /\ tasks[t].req.accessibilityRequirements # Nil
    /\ zonesNamed(tasks[t].req.accessibilityRequirements.Preferred)
           \ zonesNamed(tasks[t].req.accessibilityRequirements.Requisite) # {}

\* the call of goroutine t has a requisite list that is not empty and a
\* valid preferred zone that is not among the requisite zones and that the
\* snapshot zone, when there is one, does not rule out
PreferredOutsideGivenRequisite(t) ==
    /\ Returned(t, "chooseZones")
    /\ tasks[t].req.accessibilityRequirements # Nil
    /\ LET a == tasks[t].req.accessibilityRequirements
           snapshotZone == tasks[t].req.snapshotZone
       IN  /\ Len(a.Requisite) > 0
           /\ \E z \in zonesNamed(a.Preferred) \ zonesNamed(a.Requisite) :
                  snapshotZone = NoZone \/ snapshotZone = z

\* C39, as stated: chooseZones returns InvalidArgument for every request
\* that contains a valid preferred zone which does not appear among the
\* requisite zones, whatever the requisite list contains
C39_AsStated ==
    \A t \in Tasks : PreferredOutsideRequisite(t) => tasks[t].resp.err = InvalidArgument

\* C39, amended: chooseZones returns InvalidArgument for every request
\* whose requisite list is not empty and that contains a valid preferred
\* zone which does not appear among the requisite zones and which is the
\* snapshot zone when a snapshot zone is given
C39_PreferredNotInRequisite ==
    \A t \in Tasks : PreferredOutsideGivenRequisite(t) => tasks[t].resp.err = InvalidArgument

\* C39, its case: fr-par-2 is preferred, fr-par-1 alone is requisite, and
\* the call returned
C39_Witness ==
    \E t \in Tasks :
        /\ PreferredOutsideGivenRequisite(t)
        /\ tasks[t].req.accessibilityRequirements.Preferred =
               <<[key |-> ZoneTopologyKey, value |-> ZoneFrPar2]>>
        /\ tasks[t].req.accessibilityRequirements.Requisite =
               <<[key |-> ZoneTopologyKey, value |-> ZoneFrPar1]>>
        /\ tasks[t].resp.err = InvalidArgument


\* C40: for all combinations of required_bytes and limit_bytes, every size
\* that getVolumeRequestCapacity returns without error is at least
\* MinVolumeSize
C40_AtLeastMinVolumeSize ==
    \A t \in Tasks :
        (Returned(t, "getVolumeRequestCapacity") /\ tasks[t].resp.err = NoError) =>
            tasks[t].resp.size >= MinVolumeSize

====
